---- MODULE Spec2Model ----
(***************************************************************************)
(* Model of the marketing-agents campaign bot: the column policy          *)
(* (src/utils/columnHelper.ts), the flat-file Row Store                   *)
(* (CsvDataProvider), the BullMQ job queue with its retry policy, the     *)
(* worker pipeline (src/workers/campaignWorker.ts) and the campaign       *)
(* orchestrator (runCampaign / processSingleRow).                        *)
(*                                                                         *)
(* A JavaScript string is a sequence of tokens (each token a TLA+ string): *)
(* "" is <<>>, "TRUE" is <<"T","R","U","E">>, "$EMAIL_10" is              *)
(* <<"$EMAIL_","1","0">>.  The token grain is chosen so that every string  *)
(* operation the code performs (startsWith, the \d+ match, parseInt,       *)
(* trim, equality) is computed on the tokens.  The JavaScript values true, *)
(* null and undefined are one-token sequences no string contains.          *)
(* An object is the sequence of its <<key, value>> pairs in key order.     *)
(***************************************************************************)
EXTENDS Integers, Sequences, FiniteSets, TLC

VARIABLES
    file,       \* contacts.csv: [header: Seq(key), records: Seq(Seq(value))]
    jobs,       \* the email-campaign queue: every job ever added, by job index
    colRow,     \* column-policy check: the row object handed to the helper
    colNext,    \* column-policy check: what findNextEmptyEmailColumn returned
    csvCall,    \* Row Store check: the updateRow call of a CsvDataProvider
    dataProvider,   \* config.dataProvider: "csv" or "sheets"
    sheet,      \* Row Store check: the remote spreadsheet (header row, data rows)
    gs,         \* Row Store check: a GoogleSheetsProvider's headers, cache, mapping
    gsCall,     \* Row Store check: the last updateRow call of that provider
    llm,        \* content check: the personalizer in the build, and the attempts
                \* whose language-model call failed
    runner,     \* orchestrator check: the runCampaign / processSingleRow call
    research,   \* research check: the clock, the cache and the last lookup
    table,      \* table-contract check: the provider instances and the last call
    log,        \* log-entry check: the fields, the entry made of them, what was parsed
    limiter,    \* rate-limiter check: the clock, the limiter key, the job starts
    maxEmailsPerRun,    \* config.bot.maxEmailsPerRun
    run         \* campaign check: the runCampaign call made, if any

\* the variables of the Row Store check
storeVars == <<csvCall, dataProvider, sheet, gs, gsCall, table, log>>

\* the variables the queue and the column policy leave alone
otherVars == <<storeVars, limiter, maxEmailsPerRun, run, llm, runner, research>>

\* the variables the Row Store check leaves alone (it writes file)
outsideStore ==
    <<jobs, colRow, colNext, limiter, maxEmailsPerRun, run, llm, runner, research, table,
      log>>

\* the variables the table-contract check leaves alone (it writes file, sheet
\* and table)
outsideLog ==
    <<jobs, colRow, colNext, limiter, maxEmailsPerRun, run, llm, runner, research,
      csvCall, gs, gsCall>>

outsideTable == <<outsideLog, log>>

\* the variables the rate-limiter check leaves alone
outsideLimiter == <<file, jobs, colRow, colNext, storeVars, maxEmailsPerRun, run, llm, runner, research>>

vars == <<file, jobs, colRow, colNext, otherVars>>

-----------------------------------------------------------------------------
(* JavaScript values *)

JsTrue == <<"#true">>
JsNull == <<"#null">>
JsUndefined == <<"#undefined">>
EmptyString == <<>>

Whitespace == {" ", "\t"}
DigitChars == {"0", "1", "2", "3", "4", "5", "6", "7", "8", "9"}

DigitValue(c) ==
    CASE c = "0" -> 0 [] c = "1" -> 1 [] c = "2" -> 2 [] c = "3" -> 3
      [] c = "4" -> 4 [] c = "5" -> 5 [] c = "6" -> 6 [] c = "7" -> 7
      [] c = "8" -> 8 [] c = "9" -> 9

DigitChar(d) ==
    CASE d = 0 -> "0" [] d = 1 -> "1" [] d = 2 -> "2" [] d = 3 -> "3"
      [] d = 4 -> "4" [] d = 5 -> "5" [] d = 6 -> "6" [] d = 7 -> "7"
      [] d = 8 -> "8" [] d = 9 -> "9"

\* parseInt(s, 10) of a non-empty digit string
RECURSIVE parseInt(_)
parseInt(s) ==
    IF s = <<>> THEN 0
    ELSE 10 * parseInt(SubSeq(s, 1, Len(s) - 1)) + DigitValue(s[Len(s)])

\* String(n) of a non-negative integer
RECURSIVE NumberToString(_)
NumberToString(n) ==
    IF n < 10 THEN <<DigitChar(n)>>
    ELSE NumberToString(n \div 10) \o <<DigitChar(n % 10)>>

\* s.trim()
RECURSIVE trim(_)
trim(s) ==
    IF s = <<>> THEN s
    ELSE IF s[1] \in Whitespace THEN trim(Tail(s))
    ELSE IF s[Len(s)] \in Whitespace THEN trim(SubSeq(s, 1, Len(s) - 1))
    ELSE s

\* !value
Falsy(v) == v \in {EmptyString, JsNull, JsUndefined}

IsString(v) == v \notin {JsTrue, JsNull, JsUndefined}

\* Object.keys(row)
ObjectKeys(row) == [i \in 1..Len(row) |-> row[i][1]]

\* the properties of row named key (none or one)
Own(row, key) == SelectSeq(row, LAMBDA p : p[1] = key)

HasKey(row, key) == Own(row, key) # <<>>

\* row[key]
Get(row, key) ==
    LET own == Own(row, key)
    IN IF own = <<>> THEN JsUndefined ELSE own[1][2]

\* { ...row, [key]: value }
Put(row, key, value) ==
    IF HasKey(row, key)
    THEN [i \in 1..Len(row) |-> IF row[i][1] = key THEN <<key, value>> ELSE row[i]]
    ELSE Append(row, <<key, value>>)

\* { ...row, ...updates }
RECURSIVE Merge(_, _)
Merge(row, updates) ==
    IF updates = <<>> THEN row
    ELSE Merge(Put(row, updates[1][1], updates[1][2]), Tail(updates))

-----------------------------------------------------------------------------
(* src/utils/columnHelper.ts *)

EmailPrefix == "$EMAIL_"

\* key.startsWith('$EMAIL_')
StartsWithEmailPrefix(key) == Len(key) >= 1 /\ key[1] = EmailPrefix

\* the number that stands for null where the code returns number | null
NullIndex == -1

\* columnName.match(/^\$EMAIL_(\d+)$/): the index, or null
parseColumnIndex(columnName) ==
    IF /\ StartsWithEmailPrefix(columnName)
       /\ Len(columnName) >= 2
       /\ \A i \in 2..Len(columnName) : columnName[i] \in DigitChars
    THEN parseInt(Tail(columnName))
    ELSE NullIndex

createColumnName(index) == <<EmailPrefix>> \o NumberToString(index)

\* parseColumnIndex(a) || 0
IndexOrZero(key) ==
    LET index == parseColumnIndex(key) IN
    IF index = NullIndex \/ index = 0 THEN 0 ELSE index

\* a getTemplateNameFromColumn that would test index === null instead of
\* !index
TemplateOfEveryIndex(columnName) ==
    LET index == parseColumnIndex(columnName) IN
    IF index = NullIndex THEN <<"email_", "1">>
    ELSE <<"email_">> \o NumberToString(index)

\* getTemplateNameFromColumn: !index selects 'email_1'
getTemplateNameFromColumn(columnName) ==
    LET index == parseColumnIndex(columnName) IN
    IF index = NullIndex \/ index = 0 THEN <<"email_", "1">>
    ELSE <<"email_">> \o NumberToString(index)

\* a formatEmailLogEntry that would put the template before the message
\* identifier (not what the code does)
FormatTemplateFirst(timestamp, messageId, templateName, status, subject) ==
    LET entry == timestamp \o <<" | ">> \o templateName \o <<" | ">>
                     \o messageId \o <<" | ">> \o status
    IN IF Falsy(subject) THEN entry
       ELSE entry \o <<" | ", "Subject: ">> \o subject

\* formatEmailLogEntry(timestamp, messageId, templateName, status, subject)
formatEmailLogEntry(timestamp, messageId, templateName, status, subject) ==
    LET entry == timestamp \o <<" | ">> \o messageId \o <<" | ">>
                     \o templateName \o <<" | ">> \o status
    IN IF Falsy(subject) THEN entry
       ELSE entry \o <<" | ", "Subject: ">> \o subject

\* logEntry.split(' | ')
RECURSIVE SplitOnBar(_, _)
SplitOnBar(s, part) ==
    IF s = <<>> THEN <<part>>
    ELSE IF s[1] = " | " THEN <<part>> \o SplitOnBar(Tail(s), <<>>)
    ELSE SplitOnBar(Tail(s), Append(part, s[1]))

KeyTimestamp == <<"timestamp">>
KeyMessageId == <<"messageId">>
KeyTemplateName == <<"templateName">>
KeyStatus == <<"status">>
KeySubject == <<"subject">>

\* parseEmailLogEntry: the fields of a log entry, or null
parseEmailLogEntry(logEntry) ==
    IF Falsy(logEntry) \/ ~IsString(logEntry) THEN JsNull
    ELSE LET parts == SplitOnBar(logEntry, <<>>) IN
         IF Len(parts) < 4 THEN JsNull
         ELSE LET result == << <<KeyTimestamp, parts[1]>>, <<KeyMessageId, parts[2]>>,
                               <<KeyTemplateName, parts[3]>>, <<KeyStatus, parts[4]>> >>
              IN IF Len(parts) >= 5 /\ parts[5] # <<>> /\ parts[5][1] = "Subject: "
                 THEN Append(result, <<KeySubject, Tail(parts[5])>>)
                 ELSE result

\* the comparator of getEmailColumns: indexA - indexB
CompareByIndex(a, b) == IndexOrZero(a) - IndexOrZero(b)

\* a comparator that orders the suffixes as strings (what a plain .sort() does)
RECURSIVE LexLess(_, _)
LexLess(a, b) ==
    IF a = <<>> THEN b # <<>>
    ELSE IF b = <<>> THEN FALSE
    ELSE IF a[1] = b[1] THEN LexLess(Tail(a), Tail(b))
    ELSE DigitValue(a[1]) < DigitValue(b[1])

CompareLexically(a, b) ==
    IF LexLess(Tail(a), Tail(b)) THEN -1
    ELSE IF LexLess(Tail(b), Tail(a)) THEN 1 ELSE 0

CompareColumns(a, b) == CompareByIndex(a, b)

\* Array.prototype.sort with CompareColumns (stable): insertion of key into a
\* sorted sequence, after every element that is not greater
RECURSIVE InsertSorted(_, _)
InsertSorted(sorted, key) ==
    IF sorted = <<>> THEN <<key>>
    ELSE IF CompareColumns(key, sorted[1]) < 0 THEN <<key>> \o sorted
    ELSE <<sorted[1]>> \o InsertSorted(Tail(sorted), key)

RECURSIVE SortColumns(_)
SortColumns(keys) ==
    IF keys = <<>> THEN <<>>
    ELSE InsertSorted(SortColumns(SubSeq(keys, 1, Len(keys) - 1)), keys[Len(keys)])

getEmailColumns(row) ==
    SortColumns(SelectSeq(ObjectKeys(row), StartsWithEmailPrefix))

\* a test that takes the filled columns for the empty ones
IsFilledValue(value) == ~Falsy(value)

\* !value || (typeof value === 'string' && value.trim() === '')
IsEmptyValue(value) == Falsy(value) \/ (IsString(value) /\ trim(value) = EmptyString)

\* the first column of cols, whatever its value
FirstColumn(row, cols) == IF cols = <<>> THEN JsNull ELSE cols[1]

\* the first column of cols whose value in row is empty, or JsNull
RECURSIVE FirstEmpty(_, _)
FirstEmpty(row, cols) ==
    IF cols = <<>> THEN JsNull
    ELSE IF IsEmptyValue(Get(row, cols[1])) THEN cols[1]
    ELSE FirstEmpty(row, Tail(cols))

findNextEmptyEmailColumn(row) == FirstEmpty(row, getEmailColumns(row))

-----------------------------------------------------------------------------
(* The column-policy check: findNextEmptyEmailColumn on every row object   *)
(* of at most MaxKeys keys drawn from PolicyKeys, in every key order.      *)

MaxKeys == 3

PolicyKeys ==
    {<<"name">>, createColumnName(1), createColumnName(2), createColumnName(10)}

PolicyValues == {EmptyString, <<" ">>, <<"x">>}

\* every object over the keys ks, in every key order
RECURSIVE ObjectsOver(_)
ObjectsOver(ks) ==
    IF ks = {} THEN {<<>>}
    ELSE UNION {{<<<<k, v>>>> \o rest : v \in PolicyValues, rest \in ObjectsOver(ks \ {k})}
                : k \in ks}

PolicyRows ==
    UNION {ObjectsOver(ks) : ks \in {s \in SUBSET PolicyKeys : Cardinality(s) <= MaxKeys}}

NotCalled == <<"#notcalled">>

ColInit ==
    /\ colRow \in PolicyRows
    /\ colNext = NotCalled

ColIdle ==
    /\ colRow = <<>>
    /\ colNext = NotCalled

CallFindNext ==
    /\ colNext = NotCalled
    /\ colNext' = findNextEmptyEmailColumn(colRow)
    /\ UNCHANGED <<colRow, file, jobs, otherVars>>

-----------------------------------------------------------------------------
(* The contact table under test.  The worker reads the lower-case columns  *)
(* (email_address) and writes is_sent / sent_by; shouldSkipRow reads PAUSE *)
(* and $IN_TALKS.  The header holds all of them and two sequence columns.  *)

KeyRowNumber == <<"_rowNumber">>
KeyEmailAddress == <<"email_address">>
KeyPause == <<"PAUSE">>
KeyInTalks == <<"$IN_TALKS">>
KeyIsSent == <<"is_sent">>
KeySentBy == <<"sent_by">>

StrTRUE == <<"T", "R", "U", "E">>
Strtrue == <<"t", "r", "u", "e">>
StrTrue == <<"T", "r", "u", "e">>
StrFALSE == <<"F", "A", "L", "S", "E">>

ValidAddress == <<"a", "@", "b", ".", "c">>
InvalidAddress == <<"a", "@", "b">>

BotName == <<"ReplyFanBot">>
OldEntry == <<"ts_0", " | ", "msg_0", " | ", "email_", "1", " | ", "SENT">>

ContactsHeader ==
    <<KeyEmailAddress, KeyIsSent, KeySentBy, KeyPause, KeyInTalks,
      createColumnName(1), createColumnName(2)>>

\* row 1: a contact emailed once, the second slot empty; row 2: a fresh
\* contact with a malformed address, the first slot blank; row 3: PAUSE=TRUE;
\* row 4: PAUSE=True (typed by hand), every slot filled
ContactsRecords ==
    << <<ValidAddress, StrTRUE, BotName, StrFALSE, StrFALSE, OldEntry, EmptyString>>,
       <<InvalidAddress, EmptyString, EmptyString, StrFALSE, StrFALSE, <<" ">>, EmptyString>>,
       <<ValidAddress, EmptyString, EmptyString, StrTRUE, StrFALSE, EmptyString, EmptyString>>,
       <<ValidAddress, StrTRUE, BotName, StrTrue, StrFALSE, OldEntry, OldEntry>> >>

ContactsCsv == [header |-> ContactsHeader, records |-> ContactsRecords]

-----------------------------------------------------------------------------
(* CsvDataProvider *)

\* getRows: one object per record, keyed by the header, plus _rowNumber
RowObject(header, record, n) ==
    [k \in 1..Len(header) |-> <<header[k], record[k]>>]
        \o << <<KeyRowNumber, NumberToString(n)>> >>

getRows(f) == [n \in 1..Len(f.records) |-> RowObject(f.header, f.records[n], n)]

\* rows.findIndex((row) => row._rowNumber === rowNumber): 0 stands for -1
FindRowIndex(rows, rowNumber) ==
    LET wanted == NumberToString(rowNumber)
        found == {i \in 1..Len(rows) : Get(rows[i], KeyRowNumber) = wanted}
    IN IF found = {} THEN 0 ELSE CHOOSE i \in found : \A k \in found : i <= k

\* updateRow, up to the write: rows[rowIndex] = { ...rows[rowIndex], ...updates }
MergeIntoRows(rows, rowIndex, updates) ==
    [i \in 1..Len(rows) |-> IF i = rowIndex THEN Merge(rows[i], updates) ELSE rows[i]]

\* writeRows: allHeaders.add(key) for every key of a row but _rowNumber (the
\* keys of an object are distinct, and a Set keeps insertion order)
AddHeaders(headers, keys) ==
    LET known == {headers[i] : i \in 1..Len(headers)} \cup {KeyRowNumber}
    IN headers \o SelectSeq(keys, LAMBDA k : k \notin known)

RECURSIVE AllHeaders(_, _)
AllHeaders(headers, rows) ==
    IF rows = <<>> THEN headers
    ELSE AllHeaders(AddHeaders(headers, ObjectKeys(rows[1])), Tail(rows))

\* what csv-writer puts in a cell: String(value)
CsvCell(value) ==
    IF value = JsUndefined \/ value = JsNull THEN EmptyString
    ELSE IF value = JsTrue THEN Strtrue
    ELSE value

\* the record csv-writer makes of row under the header headerArray
CsvRecord(headerArray, row) ==
    [k \in 1..Len(headerArray) |-> CsvCell(Get(row, headerArray[k]))]

WriteFile(headerArray, rows) ==
    [header |-> headerArray,
     records |-> [n \in 1..Len(rows) |-> CsvRecord(headerArray, rows[n])]]

\* writeRows(rows) by a provider whose this.headers is headers: the whole file
writeRows(headers, rows) == WriteFile(AllHeaders(headers, rows), rows)

-----------------------------------------------------------------------------
(* src/lib/resend.ts *)

NotSeparator(s) == s # <<>> /\ \A i \in 1..Len(s) : s[i] \notin Whitespace \cup {"@"}

\* /^[^\s@]+@[^\s@]+\.[^\s@]+$/.test(email)
validateEmail(email) ==
    \E i \in 1..Len(email), k \in 1..Len(email) :
        /\ i < k
        /\ email[i] = "@"
        /\ email[k] = "."
        /\ NotSeparator(SubSeq(email, 1, i - 1))
        /\ NotSeparator(SubSeq(email, i + 1, k - 1))
        /\ NotSeparator(SubSeq(email, k + 1, Len(email)))

SendStatuses == {"SENT", "FAILED"}

-----------------------------------------------------------------------------
(* The email-campaign queue (emailQueue, defaultJobOptions) *)

Attempts == 3
BackoffDelay == 2000
MaxEmailsPerRun == 50
MaxStalledCount == 3
LockDuration == 300000

MaxJobs == 2

\* the model's bound on the failures the collaborators raise or report in one
\* behaviour (personalize throwing, sendEmail reporting FAILED, the Row Store
\* rejecting)
MaxFaults == Attempts

RECURSIVE Pow2(_)
Pow2(n) == IF n = 0 THEN 1 ELSE 2 * Pow2(n - 1)

\* a backoff that does not grow
ConstantBackoff(attemptsMade) == BackoffDelay

\* backoff { type: 'exponential', delay }: the delay after the attemptsMade-th failure
ExponentialBackoff(attemptsMade) == BackoffDelay * Pow2(attemptsMade - 1)

\* a queue that gives up one attempt early
RetryOnceLess(attemptsMade) == attemptsMade < Attempts - 1

\* attempts: a failed job is retried while attemptsMade < attempts

RetryAllowed(attemptsMade) == attemptsMade < Attempts

NewJob(type, rowNumber, rowData, to, columnName) ==
    [type |-> type, rowNumber |-> rowNumber, rowData |-> rowData,
     to |-> to, columnName |-> columnName,
     state |-> "waiting", pc |-> "idle",
     attemptsMade |-> 0, starts |-> 0, delay |-> 0,
     nextColumn |-> JsNull, sendStatus |-> "none", logEntry |-> EmptyString,
     read |-> <<>>,
     researchCalls |-> 0, personalizeCalls |-> 0, sendCalls |-> 0,
     updateCalls |-> 0, writes |-> 0,
     contentFails |-> 0, deliveryFails |-> 0, storageFails |-> 0,
     recipientFails |-> 0, stalls |-> 0,
     activeAtDrain |-> {}, lock |-> 0]

\* the processor threw: BullMQ counts the attempt and delays or fails the job
Failed(job) ==
    LET made == job.attemptsMade + 1 IN
    [job EXCEPT !.attemptsMade = made,
                !.state = IF RetryAllowed(made) THEN "delayed" ELSE "failed",
                !.delay = IF RetryAllowed(made) THEN ExponentialBackoff(made) ELSE 0,
                !.pc = "idle", !.read = <<>>]

Completed(job) ==
    [job EXCEPT !.state = "completed", !.pc = "idle", !.read = <<>>]

JobIds == 1..Len(jobs)

FaultsOf(job) == job.contentFails + job.deliveryFails + job.storageFails

RECURSIVE FaultsIn(_)
FaultsIn(q) == IF q = <<>> THEN 0 ELSE FaultsOf(q[1]) + FaultsIn(Tail(q))

\* n more failures are within the bound
MayFault(n) == FaultsIn(jobs) + n <= MaxFaults

-----------------------------------------------------------------------------
(* campaignRunner: shouldSkipRow, processRow, runCampaign, processSingleRow *)

\* row.PAUSE === true || row.PAUSE === 'TRUE' || row.PAUSE === 'true'
IsFlagSet(value) == value = JsTrue \/ value = StrTRUE \/ value = Strtrue

shouldSkipRow(row) == IsFlagSet(Get(row, KeyPause)) \/ IsFlagSet(Get(row, KeyInTalks))

RowNumberOf(row) == parseInt(Get(row, KeyRowNumber))

\* processRow(row) on the queue q: the queue after the call; addOk is whether
\* emailQueue.add resolved (a rejected add is caught and logged)
processRow(q, row, addOk) ==
    IF shouldSkipRow(row) \/ ~addOk THEN q
    ELSE Append(q, NewJob("PROCESS_ROW", RowNumberOf(row), row, EmptyString, JsNull))

\* the loop of runCampaign over rowsToProcess, processedRows counted so far;
\* it breaks once processedRows reaches maxEmailsPerRun
RECURSIVE CampaignLoop(_, _, _, _)
CampaignLoop(q, rowsToProcess, processedRows, addOk) ==
    IF rowsToProcess = <<>> THEN q
    ELSE LET after == processRow(q, Head(rowsToProcess), addOk)
             processed == processedRows + (IF Len(after) > Len(q) THEN 1 ELSE 0)
         IN IF processed >= maxEmailsPerRun THEN after
            ELSE CampaignLoop(after, Tail(rowsToProcess), processed, addOk)

MaxRowsInputs == {0, 1, 2}

\* maxRows ? rows.slice(0, maxRows) : rows
RowsToProcess(rows, maxRows) ==
    IF maxRows # 0
    THEN SubSeq(rows, 1, IF maxRows < Len(rows) THEN maxRows ELSE Len(rows))
    ELSE rows

\* the queue after runCampaign(maxRows) has loaded rows and gone through them
runCampaign(q, rows, maxRows, addOk) ==
    CampaignLoop(q, RowsToProcess(rows, maxRows), 0, addOk)

\* runCampaign(maxRows): getRows once, slice, loop, close.  The call reads the
\* table once and only adds to the queue, so it is taken as one step.
RunCampaign(maxRows, addOk) ==
    /\ Len(jobs) < MaxJobs
    /\ LET after == runCampaign(jobs, getRows(file), maxRows, addOk)
       IN /\ Len(after) <= MaxJobs
          /\ Len(after) > Len(jobs)
          /\ jobs' = after
    /\ UNCHANGED <<file, colRow, colNext, otherVars>>

\* processSingleRow(rowNumber): getRow, then processRow
ProcessSingleRow(rowNumber, addOk) ==
    /\ Len(jobs) < MaxJobs
    /\ LET rows == getRows(file)
           rowIndex == FindRowIndex(rows, rowNumber)
           after == IF rowIndex = 0 THEN jobs ELSE processRow(jobs, rows[rowIndex], addOk)
       IN /\ Len(after) <= MaxJobs
          /\ Len(after) > Len(jobs)
          /\ jobs' = after
    /\ UNCHANGED <<file, colRow, colNext, otherVars>>

\* The steps of one runCampaign / processSingleRow call: getDataProvider(),
\* the try block with its catch, and the finally block.

RunnerNone == [fn |-> "none", pc |-> "idle", arg |-> 0, path |-> "none", closes |-> 0]

RunnerIdle == runner = RunnerNone

\* a runner that would return from the try block when the row is not found
\* without running the finally block
ReturnWithoutFinally(path) == IF path = "rowNotFound" THEN "returned" ELSE "finally"

\* try { ... } catch { ... return stats } finally { ... }: whichever way the
\* try block is left, the finally block runs next
AfterTry(path) == "finally"

\* const dataProvider = getDataProvider(), on entry of fn(arg)
RunnerEnter(fn, arg) ==
    /\ runner.pc \in {"idle", "returned"}
    /\ runner' = [fn |-> fn, pc |-> "try", arg |-> arg, path |-> "none", closes |-> 0]
    /\ UNCHANGED <<file, jobs, colRow, colNext, storeVars, limiter, maxEmailsPerRun,
                   run, llm, research>>

\* the try block of runCampaign: getRows rejects and the catch returns stats,
\* or the rows are gone through (an add that rejects is caught in processRow)
RunCampaignTry(getRowsOk, addOk) ==
    /\ runner.fn = "runCampaign"
    /\ runner.pc = "try"
    /\ LET after == IF getRowsOk
                    THEN runCampaign(jobs, getRows(file), runner.arg, addOk)
                    ELSE jobs
           path == IF ~getRowsOk THEN "loadFailed"
                   ELSE IF ~addOk THEN "enqueueFailed" ELSE "normal"
       IN /\ Len(after) <= MaxJobs
          /\ jobs' = after
          /\ runner' = [runner EXCEPT !.path = path, !.pc = AfterTry(path)]
    /\ UNCHANGED <<file, colRow, colNext, storeVars, limiter, maxEmailsPerRun,
                   run, llm, research>>

\* the try block of processSingleRow: getRow rejects and the catch returns
\* stats, or there is no such row, or processRow is called
ProcessSingleRowTry(getRowOk, addOk) ==
    /\ runner.fn = "processSingleRow"
    /\ runner.pc = "try"
    /\ LET rows == getRows(file)
           rowIndex == FindRowIndex(rows, runner.arg)
           after == IF getRowOk /\ rowIndex # 0
                    THEN processRow(jobs, rows[rowIndex], addOk)
                    ELSE jobs
           path == IF ~getRowOk THEN "loadFailed"
                   ELSE IF rowIndex = 0 THEN "rowNotFound"
                   ELSE IF ~addOk THEN "enqueueFailed" ELSE "normal"
       IN /\ Len(after) <= MaxJobs
          /\ jobs' = after
          /\ runner' = [runner EXCEPT !.path = path, !.pc = AfterTry(path)]
    /\ UNCHANGED <<file, colRow, colNext, storeVars, limiter, maxEmailsPerRun,
                   run, llm, research>>

\* finally { await dataProvider.close() }, then the function returns
RunnerFinally ==
    /\ runner.pc = "finally"
    /\ runner' = [runner EXCEPT !.closes = @ + 1, !.pc = "returned"]
    /\ UNCHANGED <<file, jobs, colRow, colNext, storeVars, limiter, maxEmailsPerRun,
                   run, llm, research>>

\* a producer adds a SEND_EMAIL job (pre-personalized content)
AddSendEmailJob(rowNumber, to, columnName) ==
    /\ Len(jobs) < MaxJobs
    /\ jobs' = Append(jobs, NewJob("SEND_EMAIL", rowNumber, <<>>, to, columnName))
    /\ UNCHANGED <<file, colRow, colNext, otherVars>>

-----------------------------------------------------------------------------
(* The campaign check: one call of runCampaign on a table of eligible and  *)
(* paused contacts, under a configured ceiling.                            *)

MaxTableRows == 3
MaxCeiling == 3

EligibleRecord ==
    <<ValidAddress, EmptyString, EmptyString, StrFALSE, StrFALSE, EmptyString, EmptyString>>

PausedRecord ==
    <<ValidAddress, EmptyString, EmptyString, StrTRUE, StrFALSE, EmptyString, EmptyString>>

\* every sequence of at most n records, each eligible or paused
RECURSIVE RecordsUpTo(_)
RecordsUpTo(n) ==
    IF n = 0 THEN {<<>>}
    ELSE RecordsUpTo(n - 1)
         \cup {Append(r, x) : r \in {t \in RecordsUpTo(n - 1) : Len(t) = n - 1},
                              x \in {EligibleRecord, PausedRecord}}

CampaignTables == {[header |-> ContactsHeader, records |-> r] : r \in RecordsUpTo(MaxTableRows)}

\* const stats: CampaignStats = { totalRows: 0, processedRows: 0,
\* skippedRows: 0, ..., errors: [] }; errors is the length of the array and
\* iterated the number of passes of the loop
NoStats == [totalRows |-> 0, processedRows |-> 0, skippedRows |-> 0,
            errors |-> 0, iterated |-> 0]

\* a loop body that would count a row as skipped only when shouldSkipRow
\* holds, and a failed add as an error
CountAddFailureAsError(stats, row, addOk) ==
    IF shouldSkipRow(row)
    THEN [stats EXCEPT !.skippedRows = @ + 1, !.iterated = @ + 1]
    ELSE IF addOk
    THEN [stats EXCEPT !.processedRows = @ + 1, !.iterated = @ + 1]
    ELSE [stats EXCEPT !.errors = @ + 1, !.iterated = @ + 1]

\* one pass of the loop: processed = await processRow(row), which is false
\* for a skipped row and for a caught failure of emailQueue.add; processRow
\* never throws, so the catch of the loop body is not reached
CountRow(stats, row, addOk) ==
    IF ~shouldSkipRow(row) /\ addOk
    THEN [stats EXCEPT !.processedRows = @ + 1, !.iterated = @ + 1]
    ELSE [stats EXCEPT !.skippedRows = @ + 1, !.iterated = @ + 1]

RECURSIVE StatsLoop(_, _, _)
StatsLoop(stats, rowsToProcess, addOk) ==
    IF rowsToProcess = <<>> THEN stats
    ELSE LET after == CountRow(stats, Head(rowsToProcess), addOk)
         IN IF after.processedRows >= maxEmailsPerRun THEN after
            ELSE StatsLoop(after, Tail(rowsToProcess), addOk)

\* the statistics runCampaign(maxRows) returns
CampaignStats(rows, maxRows, addOk) ==
    StatsLoop([NoStats EXCEPT !.totalRows = Len(rows)],
              RowsToProcess(rows, maxRows), addOk)

NotRun == [called |-> FALSE, maxRows |-> 0, addOk |-> TRUE, stats |-> NoStats]

CampaignIdle ==
    /\ maxEmailsPerRun = MaxEmailsPerRun
    /\ run = NotRun

\* runCampaign(maxRows), called once on an empty queue
RunAll(maxRows, addOk) ==
    /\ ~run.called
    /\ jobs' = runCampaign(jobs, getRows(file), maxRows, addOk)
    /\ run' = [called |-> TRUE, maxRows |-> maxRows, addOk |-> addOk,
               stats |-> CampaignStats(getRows(file), maxRows, addOk)]
    /\ UNCHANGED <<file, colRow, colNext, storeVars, limiter, maxEmailsPerRun, llm, runner, research>>

-----------------------------------------------------------------------------
(* src/workers/campaignWorker.ts: processJob, processRowJob, sendEmailJob   *)
(* Every job runs on a provider of its own (getDataProvider() per job);    *)
(* the configured concurrency (5) exceeds MaxJobs, so any waiting job may  *)
(* start.                                                                  *)

SetJob(j, job) == jobs' = [jobs EXCEPT ![j] = job]

\* a queue that would never move a delayed job back to the wait list
StartableFresh(j, type) ==
    /\ jobs[j].state = "waiting"
    /\ jobs[j].type = type

\* a worker that would pick up a job that has completed
StartableAgain(j, type) ==
    /\ jobs[j].state \in {"waiting", "delayed", "completed"}
    /\ jobs[j].type = type

\* Waiting -> Active: a worker picks the job up; a delayed job is picked up
\* once its backoff delay has elapsed.  Up to its call of the Row Store the
\* processor reads and writes nothing another job can see, so the pick-up,
\* the pipeline and the first half of updateRow (which reads the file) are
\* one step; the second half (which replaces the file) is another.
Startable(j, type) ==
    /\ jobs[j].state \in {"waiting", "delayed"}
    /\ jobs[j].type = type

MoveToActive(j) ==
    [jobs[j] EXCEPT !.state = "active", !.pc = "run",
                    !.starts = @ + 1, !.lock = LockDuration,
                    !.nextColumn = JsNull, !.sendStatus = "none",
                    !.logEntry = EmptyString]

Timestamp(j) == <<"ts_">> \o NumberToString(j) \o <<"_">> \o NumberToString(jobs[j].starts + 1)

\* sendEmail returns data.id on success and error_<now> on failure
MessageId(j, status) ==
    <<IF status = "SENT" THEN "msg_" ELSE "error_">>
        \o NumberToString(j) \o <<"_">> \o NumberToString(jobs[j].starts + 1)

Subject == <<"Hello">>

\* the slot a job would work on if it looked the row up in the store
SlotFromStore(j) ==
    LET rows == getRows(file)
        rowIndex == FindRowIndex(rows, jobs[j].rowNumber)
    IN IF rowIndex = 0 THEN JsNull ELSE findNextEmptyEmailColumn(rows[rowIndex])

\* const nextColumn = findNextEmptyEmailColumn(rowData): the job's snapshot
NextColumn(j) == findNextEmptyEmailColumn(jobs[j].rowData)

DeliveryFailure(status) == IF status = "FAILED" THEN 1 ELSE 0

\* processRowJob up to the write-back: research, personalize and sendEmail
\* have returned; sendEmail never throws, it reports SENT or FAILED
AfterSend(j, nextColumn, status) ==
    [MoveToActive(j) EXCEPT
        !.nextColumn = nextColumn,
        !.researchCalls = @ + 1,
        !.personalizeCalls = @ + 1,
        !.sendCalls = @ + 1,
        !.sendStatus = status,
        !.deliveryFails = @ + DeliveryFailure(status),
        !.logEntry = formatEmailLogEntry(Timestamp(j), MessageId(j, status),
                        getTemplateNameFromColumn(nextColumn), <<status>>, Subject)]

\* processRowJob when personalize throws: research has been called, nothing
\* is sent
AfterPersonalizeThrows(j, nextColumn) ==
    [MoveToActive(j) EXCEPT !.nextColumn = nextColumn,
                            !.researchCalls = @ + 1,
                            !.personalizeCalls = @ + 1,
                            !.contentFails = @ + 1]

\* sendEmailJob up to the write-back: the address is valid, sendEmail returned
AfterSendEmail(j, status) ==
    [MoveToActive(j) EXCEPT
        !.nextColumn = jobs[j].columnName,
        !.sendCalls = @ + 1,
        !.sendStatus = status,
        !.deliveryFails = @ + DeliveryFailure(status),
        !.logEntry = formatEmailLogEntry(Timestamp(j), MessageId(j, status),
                        <<"email_", "1">>, <<status>>, Subject)]

\* the updates object of the write-back
Updates(job) ==
    << <<job.nextColumn, job.logEntry>>, <<KeyIsSent, JsTrue>>, <<KeySentBy, BotName>> >>

\* a worker that throws when sendEmail reports FAILED
ThrowOnFailedDelivery(job) ==
    IF job.sendStatus = "FAILED" THEN Failed(job)
    ELSE [job EXCEPT !.updateCalls = @ + 1, !.read = file, !.pc = "write"]

\* dataProvider.updateRow, first half: getRows and findIndex.  A missing row
\* throws 'Row n not found'.
UpdateRowRead(job) ==
    IF FindRowIndex(getRows(file), job.rowNumber) = 0
    THEN Failed([job EXCEPT !.updateCalls = @ + 1, !.storageFails = @ + 1])
    ELSE [job EXCEPT !.updateCalls = @ + 1, !.read = file, !.pc = "write"]

\* a processor that would catch the rejection of updateRow and return
SwallowStoreFailure(job) ==
    Completed([job EXCEPT !.updateCalls = @ + 1, !.storageFails = @ + 1])

\* dataProvider.updateRow rejects (the file cannot be read): the error
\* propagates out of the processor
UpdateRowThrows(job) ==
    Failed([job EXCEPT !.updateCalls = @ + 1, !.storageFails = @ + 1])

\* processRowJob: no empty column, return (the job completes)
ProcessRowNoColumn(j, nextColumn) ==
    /\ nextColumn = JsNull
    /\ SetJob(j, Completed(MoveToActive(j)))

\* processRowJob: research returned, personalize threw (template missing or
\* the language-model call failed); the error is rethrown
ProcessRowPersonalizeThrows(j, nextColumn) ==
    /\ nextColumn # JsNull
    /\ MayFault(1)
    /\ SetJob(j, Failed(AfterPersonalizeThrows(j, nextColumn)))

\* processRowJob: the email is sent (or reported FAILED) and updateRow has
\* read the file
ProcessRowSend(j, nextColumn, status) ==
    /\ nextColumn # JsNull
    /\ MayFault(DeliveryFailure(status))
    /\ SetJob(j, UpdateRowRead(AfterSend(j, nextColumn, status)))

\* processRowJob: the email is sent (or reported FAILED) and updateRow rejects
ProcessRowStoreThrows(j, nextColumn, status) ==
    /\ nextColumn # JsNull
    /\ MayFault(DeliveryFailure(status) + 1)
    /\ SetJob(j, UpdateRowThrows(AfterSend(j, nextColumn, status)))

\* the ways processRowJob runs once nextColumn is computed
ProcessRowWith(j, nextColumn) ==
    \/ ProcessRowNoColumn(j, nextColumn)
    \/ ProcessRowPersonalizeThrows(j, nextColumn)
    \/ \E status \in SendStatuses : ProcessRowSend(j, nextColumn, status)
    \/ \E status \in SendStatuses : ProcessRowStoreThrows(j, nextColumn, status)

processRowJob(j) ==
    /\ Startable(j, "PROCESS_ROW")
    /\ ProcessRowWith(j, NextColumn(j))
    /\ UNCHANGED <<file, colRow, colNext, otherVars>>

\* sendEmailJob: validateEmail(to) is false, throw before any send
SendEmailInvalid(j, valid) ==
    /\ ~valid
    /\ SetJob(j, Failed([MoveToActive(j) EXCEPT !.recipientFails = @ + 1]))

\* sendEmailJob: sendEmail returned and updateRow has read the file
SendEmailSend(j, valid, status) ==
    /\ valid
    /\ MayFault(DeliveryFailure(status))
    /\ SetJob(j, UpdateRowRead(AfterSendEmail(j, status)))

\* sendEmailJob: sendEmail returned and updateRow rejects
SendEmailStoreThrows(j, valid, status) ==
    /\ valid
    /\ MayFault(DeliveryFailure(status) + 1)
    /\ SetJob(j, UpdateRowThrows(AfterSendEmail(j, status)))

\* the ways sendEmailJob runs once validateEmail(to) is computed
SendEmailWith(j, valid) ==
    \/ SendEmailInvalid(j, valid)
    \/ \E status \in SendStatuses : SendEmailSend(j, valid, status)
    \/ \E status \in SendStatuses : SendEmailStoreThrows(j, valid, status)

sendEmailJob(j) ==
    /\ Startable(j, "SEND_EMAIL")
    /\ SendEmailWith(j, validateEmail(jobs[j].to))
    /\ UNCHANGED <<file, colRow, colNext, otherVars>>

\* the table a provider writes back
TableWritten(j) ==
    LET rows == getRows(jobs[j].read)
        rowIndex == FindRowIndex(rows, jobs[j].rowNumber)
    IN writeRows(jobs[j].read.header, MergeIntoRows(rows, rowIndex, Updates(jobs[j])))

\* dataProvider.updateRow, second half: writeRows replaces the file; the
\* processor returns and the job completes
UpdateRowWrite(j) ==
    /\ jobs[j].state = "active"
    /\ jobs[j].pc = "write"
    /\ file' = TableWritten(j)
    /\ SetJob(j, Completed([jobs[j] EXCEPT !.writes = @ + 1]))
    /\ UNCHANGED <<colRow, colNext, otherVars>>

\* the worker holding an active job crashes, or its lock (lockDuration) runs
\* out without renewal: the queue's stalled-job check moves the job back to
\* waiting, or fails it once it has stalled more than maxStalledCount times.
\* The attempt is not counted in attemptsMade and what remained of the
\* processor does not run.
\* a queue that gives up at the maxStalledCount-th stall
StalledOften(stalls) == stalls >= MaxStalledCount

StalledTooOften(stalls) == stalls > MaxStalledCount

Stalled(j) ==
    /\ jobs[j].state = "active"
    /\ SetJob(j, [jobs[j] EXCEPT
                    !.stalls = @ + 1,
                    !.state = IF StalledTooOften(jobs[j].stalls + 1)
                              THEN "failed" ELSE "waiting",
                    !.pc = "idle", !.read = <<>>])
    /\ UNCHANGED <<file, colRow, colNext, otherVars>>

\* The lock of an active job: the worker takes it for lockDuration at
\* pick-up and extends it to lockDuration every lockDuration / 2 while it
\* lives; job.lock is the time left on it.

\* half a lock duration passes without the worker extending the lock
LockPasses(j) ==
    /\ jobs[j].state = "active"
    /\ jobs[j].lock > 0
    /\ SetJob(j, [jobs[j] EXCEPT !.lock = @ - LockDuration \div 2])
    /\ UNCHANGED <<file, colRow, colNext, otherVars>>

\* the worker extends a lock it still holds
LockRenewed(j) ==
    /\ jobs[j].state = "active"
    /\ jobs[j].lock > 0
    /\ jobs[j].lock < LockDuration
    /\ SetJob(j, [jobs[j] EXCEPT !.lock = LockDuration])
    /\ UNCHANGED <<file, colRow, colNext, otherVars>>

\* the stalled-job check finds an active job without a lock
LockStalled(j) ==
    /\ jobs[j].lock = 0
    /\ Stalled(j)

-----------------------------------------------------------------------------
(* The research check: src/lib/researchAgent.ts (getResearch,               *)
(* getWebsiteResearch, the process-wide researchCache) and the research    *)
(* step of processRowJob.  Time is Date.now() in milliseconds.             *)

CACHE_TTL == 3600000

ResearchTick == CACHE_TTL \div 2
MaxResearchClock == CACHE_TTL

\* values of yt_link: the sentinel, a near miss (which is no URL either), a
\* channel URL, and a row without the column
Sentinel == <<"N/A">>
ChannelUrl == <<"https://", "youtube.com", "/@", "alexmotiv">>
YtLinks == {Sentinel, <<"n/a">>, ChannelUrl, JsUndefined}

\* values of website
WebsiteUrl == <<"alexfit.com">>
Websites == {WebsiteUrl, <<" ">>, JsUndefined}

\* const cacheKey = `website:${websiteUrl}`
WebsiteKey(websiteUrl) == <<"website:">> \o websiteUrl

ResearchKeys == (YtLinks \ {Sentinel}) \cup {WebsiteKey(WebsiteUrl)}

\* what the external services do during one lookup
AllGood == [keyConfigured |-> TRUE, api |-> "ok", fetch |-> "ok", llm |-> "ok"]

ResearchOutcomes ==
    {AllGood,
     [AllGood EXCEPT !.keyConfigured = FALSE],
     [AllGood EXCEPT !.api = "error"],
     [AllGood EXCEPT !.llm = "error"],
     [AllGood EXCEPT !.api = "error", !.llm = "error"],
     [AllGood EXCEPT !.fetch = "timeout"],
     [AllGood EXCEPT !.fetch = "http"]}

NoData == [source |-> "none", channel |-> "none", summary |-> "none", at |-> 0]
NoEntry == [data |-> NoData, expiresAt |-> 0]

NoAttempt ==
    [ytLink |-> JsUndefined, website |-> JsUndefined,
     site |-> 0, channel |-> 0, threw |-> FALSE, raised |-> FALSE,
     key |-> <<>>, before |-> NoEntry, data |-> NoData, external |-> 0, at |-> 0]

ResearchNone ==
    [now |-> 0, cache |-> [key \in ResearchKeys |-> NoEntry], attempt |-> NoAttempt]

ResearchIdle == research = ResearchNone

\* extractChannelId: the @username of a URL whose path starts with /@; null
\* when new URL(url) throws or the path has no channel
extractChannelId(url) ==
    IF /\ IsString(url) /\ Len(url) = 4
       /\ url[1] \in {"https://", "http://"} /\ url[3] = "/@"
    THEN <<"@", url[4]>>
    ELSE JsNull

\* an expiry test that would still accept an entry at its expiry time
FreshAtExpiry(entry, now) == entry # NoEntry /\ entry.expiresAt >= now

\* cached && cached.expiresAt > Date.now()
Fresh(entry, now) == entry # NoEntry /\ entry.expiresAt > now

\* fetchYouTubeData: the key is missing (throws), or the API answers, or the
\* API fails and the catch returns channelName 'YouTube Channel' and no videos
fetchYouTubeData(out) ==
    IF ~out.keyConfigured THEN "throw"
    ELSE IF out.api = "ok" THEN "found" ELSE "fallback"

\* generateChannelSummary / generateWebsiteSummary: the completion, or the
\* generic sentence the catch returns
generateSummary(out) == IF out.llm = "ok" THEN "generated" ELSE "fallback"

\* fetchWebsiteContent: the text of the page, or a throw (timeout after 10 s,
\* HTTP status not ok, network error)
fetchWebsiteContent(out) == IF out.fetch = "ok" THEN "found" ELSE "throw"

\* a research function whose catch would rethrow
RethrowFromCatch(source, now) ==
    [data |-> NoData, raised |-> TRUE]

\* catch (error) { return { summary: `A ${niche} ...`, recentVideos: [],
\* channelName: ... } }: the minimal fallback, returned, not thrown
ReturnFallback(source, now) ==
    [data |-> [source |-> source, channel |-> "minimal", summary |-> "minimal", at |-> now],
     raised |-> FALSE]

\* the lookup of key: the cached data, or the research made by body
\* (body is "throw" or the channel part of the data; a body that does not
\* throw is cached for CACHE_TTL)
Lookup(r, key, source, body, summary, calls) ==
    IF Fresh(r.cache[key], r.now)
    THEN [cache |-> r.cache, data |-> r.cache[key].data, raised |-> FALSE, external |-> 0]
    ELSE IF body = "throw"
    THEN [cache |-> r.cache, data |-> ReturnFallback(source, r.now).data,
          raised |-> ReturnFallback(source, r.now).raised, external |-> calls]
    ELSE LET data == [source |-> source, channel |-> body, summary |-> summary, at |-> r.now]
         IN [cache |-> [r.cache EXCEPT ![key] =
                            [data |-> data, expiresAt |-> r.now + CACHE_TTL]],
             data |-> data, raised |-> FALSE, external |-> calls + 1]

\* getResearch(youtubeUrl, niche)
getResearch(r, youtubeUrl, out) ==
    IF extractChannelId(youtubeUrl) = JsNull
    THEN Lookup(r, youtubeUrl, "channel", "throw", "none", 0)
    ELSE Lookup(r, youtubeUrl, "channel", fetchYouTubeData(out), generateSummary(out),
                IF out.keyConfigured THEN 1 ELSE 0)

\* getWebsiteResearch(websiteUrl, niche)
getWebsiteResearch(r, websiteUrl, out) ==
    Lookup(r, WebsiteKey(websiteUrl), "site", fetchWebsiteContent(out),
           generateSummary(out), 1)

\* a comparison that would ignore the letter case of the sentinel
IsSentinelAnyCase(ytLink) == ytLink \in {Sentinel, <<"n/a">>}

\* rowData.yt_link === 'N/A'
IsSentinel(ytLink) == ytLink = Sentinel

\* !rowData.website || typeof rowData.website !== 'string' ||
\* rowData.website.trim() === ''
WebsiteMissing(website) ==
    Falsy(website) \/ ~IsString(website) \/ trim(website) = EmptyString

\* the research step of one attempt of processRowJob on a snapshot with
\* yt_link and website: what research holds after it
ResearchStep(r, ytLink, website, out) ==
    LET site == IsSentinel(ytLink) /\ ~WebsiteMissing(website)
        threw == IsSentinel(ytLink) /\ WebsiteMissing(website)
        key == IF site THEN WebsiteKey(website) ELSE ytLink
        found == IF site THEN getWebsiteResearch(r, website, out)
                 ELSE getResearch(r, ytLink, out)
    IN IF threw
       THEN [r EXCEPT !.attempt =
                [NoAttempt EXCEPT !.ytLink = ytLink, !.website = website,
                                  !.threw = TRUE, !.at = r.now]]
       ELSE [r EXCEPT
                !.cache = found.cache,
                !.attempt =
                    [ytLink |-> ytLink, website |-> website,
                     site |-> IF site THEN 1 ELSE 0,
                     channel |-> IF site THEN 0 ELSE 1,
                     threw |-> found.raised, raised |-> found.raised,
                     key |-> key, before |-> r.cache[key],
                     data |-> found.data, external |-> found.external,
                     at |-> r.now]]

\* a worker runs the research step of an attempt
ProcessRowResearch(ytLink, website, out) ==
    /\ research' = ResearchStep(research, ytLink, website, out)
    /\ UNCHANGED <<file, jobs, colRow, colNext, storeVars, limiter, maxEmailsPerRun,
                   run, llm, runner>>

\* time passes; nothing sweeps the cache
ResearchClock ==
    /\ research.now < MaxResearchClock
    /\ research' = [research EXCEPT !.now = @ + ResearchTick]
    /\ UNCHANGED <<file, jobs, colRow, colNext, storeVars, limiter, maxEmailsPerRun,
                   run, llm, runner>>

-----------------------------------------------------------------------------
(* The content check: src/lib/personalizer.ts holds two personalizers.  One *)
(* makes a single call, generateCompleteEmail, and rethrows its error; the *)
(* other calls generateGptContent per instruction, which catches the error *)
(* and returns '[Content generation failed]'.  The build has one of them.  *)

Personalizers == {"generateCompleteEmail", "generateGptContent"}

LlmIdle == llm = [personalizer |-> "generateCompleteEmail", failed |-> {}]

\* the attempts of job j whose language-model call failed
LlmFailed(j) == {e \in llm.failed : e[1] = j}

\* openai.chat.completions.create rejects inside generateCompleteEmail: the
\* catch rethrows, personalize rethrows, the processor throws
generateCompleteEmailFails(j, nextColumn) ==
    /\ llm.personalizer = "generateCompleteEmail"
    /\ SetJob(j, Failed(AfterPersonalizeThrows(j, nextColumn)))

\* openai.chat.completions.create rejects inside generateGptContent: the catch
\* returns '[Content generation failed]', personalize returns the email with
\* that text, and the processor goes on to sendEmail and updateRow
generateGptContentFails(j, nextColumn, status) ==
    /\ llm.personalizer = "generateGptContent"
    /\ SetJob(j, UpdateRowRead(AfterSend(j, nextColumn, status)))

\* processRowJob on an attempt whose language-model call fails
LlmCallFails(j) ==
    /\ Startable(j, "PROCESS_ROW")
    /\ NextColumn(j) # JsNull
    /\ MayFault(1)
    /\ \/ generateCompleteEmailFails(j, NextColumn(j))
       \/ \E status \in SendStatuses : generateGptContentFails(j, NextColumn(j), status)
    /\ llm' = [llm EXCEPT !.failed = @ \cup {<<j, jobs[j].starts + 1>>}]
    /\ UNCHANGED <<file, colRow, colNext, storeVars, limiter, maxEmailsPerRun, run, runner, research>>

-----------------------------------------------------------------------------
(* The Row Store check: calls of updateRow on a provider of each backend,   *)
(* one call at a time, with the steps of a call visible to a reader of the *)
(* stored table and open to interruption.                                  *)

\* a file opened for writing and not yet written: no header line, no record
EmptyFile == [header |-> <<>>, records |-> <<>>]

\* row 5 is not in the table
StoreRowNumbers == 1..(Len(ContactsRecords) + 1)

\* the fields a caller passes: existing columns only, or a column the table
\* does not have yet
UpdatesOfExistingColumns ==
    << <<createColumnName(2), <<"x">>>>, <<KeyIsSent, JsTrue>> >>

UpdatesWithNewColumn == << <<createColumnName(3), <<"y">>>> >>

StoreUpdates == {UpdatesOfExistingColumns, UpdatesWithNewColumn}

CallDone == {"none", "returned", "thrown", "interrupted"}

CsvCallIdle ==
    [pc |-> "none", rowNumber |-> 0, updates |-> <<>>,
     headers |-> <<>>, rows |-> <<>>, before |-> EmptyFile]

\* CsvDataProvider.updateRow, up to the call of writeRows: getRows, findIndex,
\* throw when the row is missing, merge the updates into the copy
CsvUpdateRowRead(rowNumber, updates) ==
    /\ dataProvider = "csv"
    /\ csvCall.pc \in CallDone
    /\ LET rows == getRows(file)
           rowIndex == FindRowIndex(rows, rowNumber)
       IN csvCall' =
            [pc |-> IF rowIndex = 0 THEN "thrown" ELSE "read",
             rowNumber |-> rowNumber, updates |-> updates,
             headers |-> file.header,
             rows |-> IF rowIndex = 0 THEN rows
                      ELSE MergeIntoRows(rows, rowIndex, updates),
             before |-> file]
    /\ UNCHANGED <<file, outsideStore, dataProvider, sheet, gs, gsCall>>

\* csvWriter.writeRecords, first half: the file is opened with flag 'w',
\* which truncates it in place
CsvWriteOpen ==
    /\ csvCall.pc = "read"
    /\ file' = EmptyFile
    /\ csvCall' = [csvCall EXCEPT !.pc = "opened"]
    /\ UNCHANGED <<outsideStore, dataProvider, sheet, gs, gsCall>>

\* csvWriter.writeRecords, second half: the header line and the records are
\* written; updateRow returns
CsvWriteFinish ==
    /\ csvCall.pc = "opened"
    /\ file' = writeRows(csvCall.headers, csvCall.rows)
    /\ csvCall' = [csvCall EXCEPT !.pc = "returned"]
    /\ UNCHANGED <<outsideStore, dataProvider, sheet, gs, gsCall>>

\* the first k records of f under its header
FilePrefix(f, k) == [header |-> f.header, records |-> SubSeq(f.records, 1, k)]

\* what an interrupted write leaves: nothing, or the header and some of the
\* records
InterruptedFiles(f) == {EmptyFile} \cup {FilePrefix(f, k) : k \in 0..(Len(f.records) - 1)}

\* the process is killed between the read and the end of the write
CsvInterrupt ==
    /\ csvCall.pc \in {"read", "opened"}
    /\ IF csvCall.pc = "read" THEN file' = file
       ELSE file' \in InterruptedFiles(writeRows(csvCall.headers, csvCall.rows))
    /\ csvCall' = [csvCall EXCEPT !.pc = "interrupted"]
    /\ UNCHANGED <<outsideStore, dataProvider, sheet, gs, gsCall>>

\* GoogleSheetsProvider -----------------------------------------------------

\* a provider just constructed, or closed
GsClosed == [initialized |-> FALSE, headers |-> <<>>, cache |-> JsNull, map |-> {}]

\* loadHeaders: headerRow.map((h) => String(h || '').trim())
loadHeaders(s) == [k \in 1..Len(s.header) |-> trim(s.header[k])]

\* row[index], '' for a cell the row does not have
SheetCell(row, index) == IF index <= Len(row) THEN row[index] ELSE EmptyString

\* rowToContactRow's loop over this.headers from the k-th on:
\* contactRow[header] = String(value), '' for a missing cell; a header that
\* is '' is skipped, a header met again overwrites the property
RECURSIVE AssignCells(_, _, _, _)
AssignCells(contactRow, headers, row, k) ==
    IF k > Len(headers) THEN contactRow
    ELSE AssignCells(IF headers[k] = EmptyString THEN contactRow
                     ELSE Put(contactRow, headers[k], SheetCell(row, k)),
                     headers, row, k + 1)

\* rowToContactRow: _rowNumber first, then one property per header
rowToContactRow(headers, row, actualSheetRow) ==
    AssignCells(<< <<KeyRowNumber, NumberToString(actualSheetRow - 1)>> >>,
                headers, row, 1)

\* row.some((cell) => ... String(cell).trim() !== '')
HasContent(row) == \E k \in 1..Len(row) : trim(row[k]) # EmptyString

\* getRows, the loop over response.data.values: rows without content are
\* skipped; the row at index (from 0) is sheet row 2 + index
RECURSIVE ContactRowsFrom(_, _, _)
ContactRowsFrom(headers, records, index) ==
    IF index > Len(records) THEN <<>>
    ELSE (IF HasContent(records[index])
          THEN <<rowToContactRow(headers, records[index], index + 1)>>
          ELSE <<>>)
         \o ContactRowsFrom(headers, records, index + 1)

\* the provider after getRows: the cache is returned when there is one;
\* otherwise headers, rows and the mapping are loaded from the sheet
GsGetRows(p, s) ==
    IF p.cache # JsNull THEN [p EXCEPT !.initialized = TRUE]
    ELSE LET headers == loadHeaders(s)
             rows == ContactRowsFrom(headers, s.records, 1)
         IN [initialized |-> TRUE, headers |-> headers, cache |-> rows,
             map |-> p.map \cup {<<RowNumberOf(rows[i]), RowNumberOf(rows[i]) + 1>>
                                    : i \in 1..Len(rows)}]

\* the keys of updates that are not columns yet
NewColumns(headers, updates) ==
    SelectSeq(ObjectKeys(updates),
              LAMBDA key : key # KeyRowNumber
                           /\ \A k \in 1..Len(headers) : headers[k] # key)

\* insertDimension with startIndex index (from 0) on one row of cells, then
\* value written to the new cell: the cells from index on move one to the
\* right; a row that ends before index has no cell to move
InsertCell(row, index, value) ==
    IF index >= Len(row)
    THEN (IF value = EmptyString THEN row ELSE Append(row, value))
    ELSE SubSeq(row, 1, index) \o <<value>> \o SubSeq(row, index + 1, Len(row))

\* the sheet after addColumn's two requests: a blank column inserted at
\* newColumnIndex and columnName written to its header cell
InsertColumn(s, newColumnIndex, columnName) ==
    [header |-> InsertCell(s.header, newColumnIndex, columnName),
     records |-> [n \in 1..Len(s.records) |->
                    InsertCell(s.records[n], newColumnIndex, EmptyString)]]

\* an addColumn that would keep the cached rows (not what the code does)
InsertKeepingCache(st, columnName) ==
    [gs |-> [st.gs EXCEPT !.headers = Append(st.gs.headers, columnName)],
     sheet |-> InsertColumn(st.sheet, Len(st.gs.headers), columnName)]

\* addColumn from the try on: the column is inserted at this.headers.length,
\* its header cell written; the provider adds the name to its headers, drops
\* the cache and clears the mapping
InsertNewColumn(st, columnName) ==
    [gs |-> [st.gs EXCEPT !.headers = Append(st.gs.headers, columnName),
                          !.cache = JsNull,
                          !.map = {}],
     sheet |-> InsertColumn(st.sheet, Len(st.gs.headers), columnName)]

\* updateRow's loop: addColumn for each new column, in order
RECURSIVE AddColumns(_, _)
AddColumns(st, newColumns) ==
    IF newColumns = <<>> THEN st
    ELSE AddColumns(InsertNewColumn(st, Head(newColumns)), Tail(newColumns))

\* what contactRowToRow writes for a value
SheetValue(value) ==
    IF value = JsTrue THEN StrTRUE
    ELSE IF value = JsNull \/ value = JsUndefined THEN EmptyString
    ELSE value

\* contactRowToRow: one cell per header
contactRowToRow(headers, contactRow) ==
    [k \in 1..Len(headers) |-> SheetValue(Get(contactRow, headers[k]))]

\* values.update of a row range with rowData: the cells rowData covers are
\* replaced, the cells to their right keep their values
OverwriteCells(cells, rowData) ==
    rowData \o SubSeq(cells, Len(rowData) + 1, Len(cells))

\* this.rowNumberToSheetRow.get(rowNumber), 0 for undefined
ActualSheetRow(map, rowNumber) ==
    LET found == {e \in map : e[1] = rowNumber}
    IN IF found = {} THEN 0 ELSE (CHOOSE e \in found : TRUE)[2]

\* an updateRow that would create the columns before it looks for the row
\* (not what the code does)
GsAddColumnsThenThrow(st, updates) ==
    LET added == AddColumns(st, NewColumns(st.gs.headers, updates))
    IN [gs |-> added.gs, sheet |-> added.sheet, result |-> "RowNotFound"]

\* updateRow when findIndex returns -1: throw, nothing else is done
GsThrowNotFound(st, updates) ==
    [gs |-> st.gs, sheet |-> st.sheet, result |-> "RowNotFound"]

\* an updateRow that would write the sheet and leave the cached row as it
\* was (not what the code does)
GsWriteRowOnly(st, rows, rowIndex, rowNumber, updates) ==
    LET updatedRow == Merge(rows[rowIndex], updates)
        actualSheetRow == ActualSheetRow(st.gs.map, rowNumber)
    IN [gs |-> st.gs,
        sheet |-> [st.sheet EXCEPT
                    !.records[actualSheetRow - 1] =
                        OverwriteCells(@, contactRowToRow(st.gs.headers, updatedRow))],
        result |-> "returned"]

\* updateRow from the new columns on: addColumn for each, loadHeaders, merge,
\* look the sheet row up, write the row, update the cache
GsWriteRow(st, rows, rowIndex, rowNumber, updates) ==
    LET newColumns == NewColumns(st.gs.headers, updates)
        added == AddColumns(st, newColumns)
        headers == IF newColumns = <<>> THEN added.gs.headers
                   ELSE loadHeaders(added.sheet)
        updatedRow == Merge(rows[rowIndex], updates)
        actualSheetRow == ActualSheetRow(added.gs.map, rowNumber)
    IN IF actualSheetRow = 0
       THEN [gs |-> [added.gs EXCEPT !.headers = headers],
             sheet |-> added.sheet, result |-> "NoSheetRow"]
       ELSE [gs |-> [added.gs EXCEPT
                        !.headers = headers,
                        !.cache = [rows EXCEPT ![rowIndex] = updatedRow]],
             sheet |-> [added.sheet EXCEPT
                        !.records[actualSheetRow - 1] =
                            OverwriteCells(@, contactRowToRow(headers, updatedRow))],
             result |-> "returned"]

\* GoogleSheetsProvider.updateRow(rowNumber, updates): the provider, the
\* sheet and the outcome after the call
GsUpdateRow(p, s, rowNumber, updates) ==
    LET loaded == [gs |-> GsGetRows(p, s), sheet |-> s]
        rows == loaded.gs.cache
        rowIndex == FindRowIndex(rows, rowNumber)
    IN IF rowIndex = 0 THEN GsThrowNotFound(loaded, updates)
       ELSE GsWriteRow(loaded, rows, rowIndex, rowNumber, updates)

\* gsCall describes the updateRow call the provider has just made, and is
\* idle when there is none or another call has followed it
GsCallIdle ==
    [result |-> "none", rowNumber |-> 0, updates |-> <<>>,
     before |-> [sheet |-> EmptyFile, gs |-> GsClosed]]

\* a caller awaits updateRow(rowNumber, updates) on the provider
GsUpdateRowCall(rowNumber, updates) ==
    /\ dataProvider = "sheets"
    /\ LET after == GsUpdateRow(gs, sheet, rowNumber, updates)
       IN /\ gs' = after.gs
          /\ sheet' = after.sheet
          /\ gsCall' = [result |-> after.result, rowNumber |-> rowNumber,
                        updates |-> updates,
                        before |-> [sheet |-> sheet, gs |-> gs]]
    /\ UNCHANGED <<file, outsideStore, csvCall, dataProvider>>

\* a caller awaits getRows() on the provider
GsGetRowsCall ==
    /\ dataProvider = "sheets"
    /\ gs' = GsGetRows(gs, sheet)
    /\ gs' # gs
    /\ gsCall' = GsCallIdle
    /\ UNCHANGED <<file, outsideStore, csvCall, dataProvider, sheet>>

\* close(): the cache, the headers and the mapping are dropped
GsCloseCall ==
    /\ dataProvider = "sheets"
    /\ gs # GsClosed
    /\ gs' = GsClosed
    /\ gsCall' = GsCallIdle
    /\ UNCHANGED <<file, outsideStore, csvCall, dataProvider, sheet>>

-----------------------------------------------------------------------------
(* The table-contract check: getRows, getRow, updateRow, addColumn and      *)
(* close called one after the other on provider instances of one backend.  *)
(* getDataProvider() makes a new instance for every caller, so two         *)
(* instances work on the same table.                                       *)

Instances == {1, 2}

\* a CsvDataProvider just constructed
CsvNew == [headers |-> <<>>]

\* a column the table does not have, and one it has
ColumnNames == {createColumnName(3), createColumnName(1)}

\* row 1, and a row that is not in the table
TableRowNumbers == {1, Len(ContactsRecords) + 1}

\* rows.find((row) => row._rowNumber === rowNumber) || null
FindRow(rows, rowNumber) ==
    LET rowIndex == FindRowIndex(rows, rowNumber)
    IN IF rowIndex = 0 THEN JsNull ELSE rows[rowIndex]

\* CsvDataProvider.getRows on the file f: the 'headers' event sets
\* this.headers, the rows are resolved
CsvGetRows(f) ==
    [provider |-> [headers |-> f.header], store |-> f, result |-> getRows(f)]

\* CsvDataProvider.getRow
CsvGetRow(f, rowNumber) ==
    [provider |-> [headers |-> f.header], store |-> f,
     result |-> FindRow(getRows(f), rowNumber)]

\* CsvDataProvider.updateRow, the whole call
CsvUpdateRow(f, rowNumber, updates) ==
    LET rows == getRows(f)
        rowIndex == FindRowIndex(rows, rowNumber)
    IN IF rowIndex = 0
       THEN [provider |-> [headers |-> f.header], store |-> f,
             result |-> "RowNotFound", previous |-> JsNull]
       ELSE [provider |-> [headers |-> f.header],
             store |-> writeRows(f.header, MergeIntoRows(rows, rowIndex, updates)),
             result |-> "returned", previous |-> rows[rowIndex]]

\* this.headers.includes(columnName)
Includes(headers, columnName) == \E k \in 1..Len(headers) : headers[k] = columnName

\* CsvDataProvider.addColumn: getRows, return when the header has the column,
\* else push it, give every row '' for it and write the file
CsvAddColumn(f, columnName) ==
    LET rows == getRows(f)
        headers == f.header
    IN IF Includes(headers, columnName)
       THEN [provider |-> [headers |-> headers], store |-> f, result |-> "exists"]
       ELSE [provider |-> [headers |-> Append(headers, columnName)],
             store |-> writeRows(Append(headers, columnName),
                                 [n \in 1..Len(rows) |->
                                    Put(rows[n], columnName, EmptyString)]),
             result |-> "added"]

\* ensureInitialized: the first call since construction or close() loads the
\* headers
ensureInitialized(p, s) ==
    IF p.initialized THEN p
    ELSE [p EXCEPT !.initialized = TRUE, !.headers = loadHeaders(s)]

\* GoogleSheetsProvider.getRows
GsListRows(p, s) ==
    LET after == GsGetRows(p, s)
    IN [provider |-> after, store |-> s, result |-> after.cache]

\* GoogleSheetsProvider.getRow
GsGetRow(p, s, rowNumber) ==
    LET after == GsGetRows(p, s)
    IN [provider |-> after, store |-> s, result |-> FindRow(after.cache, rowNumber)]

\* GoogleSheetsProvider.updateRow
GsUpdate(p, s, rowNumber, updates) ==
    LET after == GsUpdateRow(p, s, rowNumber, updates)
    IN [provider |-> after.gs, store |-> after.sheet, result |-> after.result,
        previous |-> FindRow(GsGetRows(p, s).cache, rowNumber)]

\* GoogleSheetsProvider.addColumn
GsAddColumn(p, s, columnName) ==
    LET initialized == ensureInitialized(p, s)
    IN IF Includes(initialized.headers, columnName)
       THEN [provider |-> initialized, store |-> s, result |-> "exists"]
       ELSE LET after == InsertNewColumn([gs |-> initialized, sheet |-> s], columnName)
            IN [provider |-> after.gs, store |-> after.sheet, result |-> "added"]

NoCall ==
    [op |-> "none", instance |-> 0, rowNumber |-> 0, columnName |-> <<>>,
     updates |-> <<>>, result |-> "none", previous |-> JsNull]

TableNone == [providers |-> [i \in Instances |-> GsClosed], call |-> NoCall]

TableIdle == table = TableNone

\* the table of the configured backend
Table == IF dataProvider = "csv" THEN file ELSE sheet

\* instance i has made the call op and is left as after says; table.call
\* keeps the call, its outcome and, for an updateRow, the row it found
Serve(i, op, rowNumber, columnName, updates, after, previous) ==
    /\ table' = [providers |-> [table.providers EXCEPT ![i] = after.provider],
                 call |-> [op |-> op, instance |-> i, rowNumber |-> rowNumber,
                           columnName |-> columnName, updates |-> updates,
                           result |-> after.result, previous |-> previous]]
    /\ IF dataProvider = "csv"
       THEN file' = after.store /\ sheet' = sheet
       ELSE sheet' = after.store /\ file' = file
    /\ UNCHANGED <<dataProvider, outsideTable>>

\* a caller awaits getRows() on instance i
TableGetRows(i) ==
    /\ i \in Instances
    /\ Serve(i, "getRows", 0, <<>>, <<>>,
             IF dataProvider = "csv" THEN CsvGetRows(file)
             ELSE GsListRows(table.providers[i], sheet),
             JsNull)

\* a caller awaits getRow(rowNumber) on instance i
TableGetRow(i, rowNumber) ==
    /\ i \in Instances
    /\ Serve(i, "getRow", rowNumber, <<>>, <<>>,
             IF dataProvider = "csv" THEN CsvGetRow(file, rowNumber)
             ELSE GsGetRow(table.providers[i], sheet, rowNumber),
             JsNull)

\* a caller awaits updateRow(rowNumber, updates) on instance i
TableUpdateRow(i, rowNumber, updates) ==
    /\ i \in Instances
    /\ LET after == IF dataProvider = "csv"
                    THEN CsvUpdateRow(file, rowNumber, updates)
                    ELSE GsUpdate(table.providers[i], sheet, rowNumber, updates)
       IN Serve(i, "updateRow", rowNumber, <<>>, updates, after, after.previous)

\* a caller awaits addColumn(columnName) on instance i
TableAddColumn(i, columnName) ==
    /\ i \in Instances
    /\ Serve(i, "addColumn", 0, columnName, <<>>,
             IF dataProvider = "csv" THEN CsvAddColumn(file, columnName)
             ELSE GsAddColumn(table.providers[i], sheet, columnName),
             JsNull)

\* a caller awaits close() on instance i of the remote backend
TableClose(i) ==
    /\ dataProvider = "sheets"
    /\ table.providers[i] # GsClosed
    /\ Serve(i, "close", 0, <<>>, <<>>,
             [provider |-> GsClosed, store |-> sheet, result |-> "returned"],
             JsNull)

-----------------------------------------------------------------------------
(* The log-entry check: formatEmailLogEntry on fields of every kind, the    *)
(* entry written to slot 2 of row 1 by updateRow, read back by getRow and   *)
(* parsed by parseEmailLogEntry.                                            *)

\* values of a field: plain ones, the empty string, and one that holds the
\* separator
LogTimestamps == {<<"2025-01-01T10:00:00.000Z">>}
LogMessageIds == {<<"msg_1">>, EmptyString, <<"re", " | ", "1">>}
LogTemplates == {<<"email_", "2">>, <<"a", " | ", "b">>}
LogStatuses == {<<"SENT">>, <<"FAILED">>}
LogSubjects == {JsUndefined, EmptyString, <<"Hello">>, <<"Hi", " | ", "you">>}

LogFields ==
    [timestamp : LogTimestamps, messageId : LogMessageIds,
     templateName : LogTemplates, status : LogStatuses, subject : LogSubjects]

LogColumn == createColumnName(2)

LogNone == [pc |-> "none", fields |-> JsNull, entry |-> EmptyString, parsed |-> JsNull]

LogIdle == log = LogNone

\* a caller formats the fields and parses the entry at once
LogFormat(fields) ==
    /\ log.pc = "none"
    /\ LET entry == formatEmailLogEntry(fields.timestamp, fields.messageId,
                        fields.templateName, fields.status, fields.subject)
       IN log' = [pc |-> "formatted", fields |-> fields, entry |-> entry,
                  parsed |-> parseEmailLogEntry(entry)]
    /\ UNCHANGED <<file, sheet, table, dataProvider, outsideLog>>

\* the entry is written as the worker writes it: updateRow(1, {slot: entry})
LogStore(i) ==
    /\ log.pc = "formatted"
    /\ LET updates == << <<LogColumn, log.entry>> >>
           after == IF dataProvider = "csv" THEN CsvUpdateRow(file, 1, updates)
                    ELSE GsUpdate(table.providers[i], sheet, 1, updates)
       IN /\ table' = [table EXCEPT !.providers[i] = after.provider]
          /\ IF dataProvider = "csv"
             THEN file' = after.store /\ sheet' = sheet
             ELSE sheet' = after.store /\ file' = file
          /\ log' = [log EXCEPT !.pc = "stored", !.parsed = JsNull]
    /\ UNCHANGED <<dataProvider, outsideLog>>

\* the row is read back with getRow(1) and its slot parsed
LogReadBack(i) ==
    /\ log.pc = "stored"
    /\ LET after == IF dataProvider = "csv" THEN CsvGetRow(file, 1)
                    ELSE GsGetRow(table.providers[i], sheet, 1)
       IN /\ table' = [table EXCEPT !.providers[i] = after.provider]
          /\ log' = [log EXCEPT
                        !.pc = "read",
                        !.parsed = parseEmailLogEntry(Get(after.result, LogColumn))]
    /\ UNCHANGED <<file, sheet, dataProvider, outsideLog>>

StoreIdle ==
    /\ csvCall = CsvCallIdle
    /\ dataProvider = "csv"
    /\ sheet = EmptyFile
    /\ gs = GsClosed
    /\ gsCall = GsCallIdle
    /\ TableIdle
    /\ LogIdle

-----------------------------------------------------------------------------
(* The rate-limiter check: createWorker gives the worker                   *)
(* limiter { max: 10, duration: 60000 } and the configured concurrency.    *)
(* BullMQ keeps one counter per queue: the first start after the counter   *)
(* expired sets it to 1 and makes it expire duration ms later; a start is  *)
(* refused while the counter is alive and has reached max.  There are      *)
(* always jobs waiting.                                                    *)

LimiterMax == 10
LimiterDuration == 60000
CampaignConcurrency == 5

\* the clock advances in thirds of the limiter's duration, up to MaxClock
ClockStep == LimiterDuration \div 3
MaxClock == 2 * LimiterDuration

\* recent[1], recent[2], recent[3]: the starts at now, at now - ClockStep and at
\* now - 2 * ClockStep, which lie within one window of LimiterDuration ms
LimiterIdle ==
    limiter = [now |-> 0, count |-> 0, expires |-> 0, active |-> 0,
               recent |-> <<0, 0, 0>>]

\* the value of the limiter's counter at the time now
LimiterCount == IF limiter.now < limiter.expires THEN limiter.count ELSE 0

\* a worker moves a waiting job to active
LimiterStart ==
    /\ limiter.active < CampaignConcurrency
    /\ LimiterCount < LimiterMax
    /\ limiter' = [limiter EXCEPT
            !.count = LimiterCount + 1,
            !.expires = IF LimiterCount = 0 THEN limiter.now + LimiterDuration ELSE @,
            !.active = @ + 1,
            !.recent[1] = @ + 1]
    /\ UNCHANGED outsideLimiter

\* the processor of an active job returns or throws
LimiterFinish ==
    /\ limiter.active > 0
    /\ limiter' = [limiter EXCEPT !.active = @ - 1]
    /\ UNCHANGED outsideLimiter

LimiterTick ==
    /\ limiter.now < MaxClock
    /\ limiter' = [limiter EXCEPT
            !.now = @ + ClockStep,
            !.recent = <<0, limiter.recent[1], limiter.recent[2]>>]
    /\ UNCHANGED outsideLimiter

-----------------------------------------------------------------------------
(* Specifications *)

RowNumbers == 1..Len(ContactsRecords)

\* the queue, the workers and the flat-file Row Store
Init ==
    /\ LlmIdle
    /\ RunnerIdle
    /\ ResearchIdle
    /\ file = ContactsCsv
    /\ jobs = <<>>
    /\ ColIdle
    /\ StoreIdle
    /\ LimiterIdle
    /\ CampaignIdle

Next ==
    \/ \E maxRows \in MaxRowsInputs, addOk \in BOOLEAN : RunCampaign(maxRows, addOk)
    \/ \E rowNumber \in RowNumbers, addOk \in BOOLEAN : ProcessSingleRow(rowNumber, addOk)
    \/ \E to \in {ValidAddress, InvalidAddress} : AddSendEmailJob(1, to, createColumnName(1))
    \/ \E j \in JobIds :
        \/ processRowJob(j)
        \/ sendEmailJob(j)
        \/ UpdateRowWrite(j)

Spec == Init /\ [][Next]_vars

\* the column policy alone
ColumnNext == CallFindNext

ColumnInit ==
    /\ LlmIdle
    /\ RunnerIdle
    /\ ResearchIdle
    /\ file = ContactsCsv
    /\ jobs = <<>>
    /\ ColInit
    /\ StoreIdle
    /\ LimiterIdle
    /\ CampaignIdle

ColumnSpec == ColumnInit /\ [][ColumnNext]_vars

\* getTemplateNameFromColumn on every column name of at most MaxNameLen
\* parts, each the prefix $EMAIL_, a digit or a letter; colRow is the name
\* and colNext the template name returned
MaxNameLen == 3

NameParts == {EmailPrefix, "0", "1", "2", "x"}

RECURSIVE NamesOfLen(_)
NamesOfLen(n) ==
    IF n = 0 THEN {<<>>}
    ELSE {Append(name, part) : name \in NamesOfLen(n - 1), part \in NameParts}

TemplateNames == UNION {NamesOfLen(n) : n \in 1..MaxNameLen}

CallTemplateFor ==
    /\ colNext = NotCalled
    /\ colNext' = getTemplateNameFromColumn(colRow)
    /\ UNCHANGED <<colRow, file, jobs, otherVars>>

TemplateInit ==
    /\ LlmIdle
    /\ RunnerIdle
    /\ ResearchIdle
    /\ file = ContactsCsv
    /\ jobs = <<>>
    /\ colRow \in TemplateNames
    /\ colNext = NotCalled
    /\ StoreIdle
    /\ LimiterIdle
    /\ CampaignIdle

TemplateNext == CallTemplateFor

TemplateSpec == TemplateInit /\ [][TemplateNext]_vars

\* the Row Store alone
StoreInit ==
    /\ LlmIdle
    /\ RunnerIdle
    /\ ResearchIdle
    /\ jobs = <<>>
    /\ ColIdle
    /\ LimiterIdle
    /\ CampaignIdle
    /\ csvCall = CsvCallIdle
    /\ gs = GsClosed
    /\ gsCall = GsCallIdle
    /\ TableIdle
    /\ LogIdle
    /\ dataProvider \in {"csv", "sheets"}
    /\ file = IF dataProvider = "csv" THEN ContactsCsv ELSE EmptyFile
    /\ sheet = IF dataProvider = "sheets" THEN ContactsCsv ELSE EmptyFile

StoreNext ==
    \/ \E rowNumber \in StoreRowNumbers, updates \in StoreUpdates :
            CsvUpdateRowRead(rowNumber, updates)
    \/ CsvWriteOpen
    \/ CsvWriteFinish
    \/ CsvInterrupt
    \/ \E rowNumber \in StoreRowNumbers, updates \in StoreUpdates :
            GsUpdateRowCall(rowNumber, updates)
    \/ GsGetRowsCall
    \/ GsCloseCall

StoreSpec == StoreInit /\ [][StoreNext]_vars

\* the rate limiter alone
LimiterInit ==
    /\ LlmIdle
    /\ RunnerIdle
    /\ ResearchIdle
    /\ file = ContactsCsv
    /\ jobs = <<>>
    /\ ColIdle
    /\ StoreIdle
    /\ LimiterIdle
    /\ CampaignIdle

LimiterNext == LimiterStart \/ LimiterFinish \/ LimiterTick

LimiterSpec == LimiterInit /\ [][LimiterNext]_vars

\* runCampaign alone, on every table and under every ceiling
RunAllInit ==
    /\ LlmIdle
    /\ RunnerIdle
    /\ ResearchIdle
    /\ file \in CampaignTables
    /\ jobs = <<>>
    /\ ColIdle
    /\ StoreIdle
    /\ LimiterIdle
    /\ maxEmailsPerRun \in 0..MaxCeiling
    /\ run = NotRun

RunAllNext == \E maxRows \in 0..MaxTableRows, addOk \in BOOLEAN : RunAll(maxRows, addOk)

RunAllSpec == RunAllInit /\ [][RunAllNext]_vars

\* one campaign run under a small ceiling, and the workers on its jobs
CampaignInit ==
    /\ LlmIdle
    /\ RunnerIdle
    /\ ResearchIdle
    /\ file = ContactsCsv
    /\ jobs = <<>>
    /\ ColIdle
    /\ StoreIdle
    /\ LimiterIdle
    /\ maxEmailsPerRun \in 1..MaxJobs
    /\ run = NotRun

CampaignNext ==
    \/ \E maxRows \in MaxRowsInputs, addOk \in BOOLEAN : RunAll(maxRows, addOk)
    \/ \E j \in JobIds :
        \/ processRowJob(j)
        \/ UpdateRowWrite(j)

CampaignSpec == CampaignInit /\ [][CampaignNext]_vars

\* calls of runCampaign and processSingleRow, one after the other
RunnerInit == Init

RunnerNext ==
    \/ \E maxRows \in MaxRowsInputs : RunnerEnter("runCampaign", maxRows)
    \/ \E rowNumber \in StoreRowNumbers : RunnerEnter("processSingleRow", rowNumber)
    \/ \E getRowsOk \in BOOLEAN, addOk \in BOOLEAN : RunCampaignTry(getRowsOk, addOk)
    \/ \E getRowOk \in BOOLEAN, addOk \in BOOLEAN : ProcessSingleRowTry(getRowOk, addOk)
    \/ RunnerFinally

RunnerSpec == RunnerInit /\ [][RunnerNext]_vars

\* research steps of attempts on any snapshot, as time passes
ResearchInit == Init

ResearchNext ==
    \/ \E ytLink \in YtLinks, website \in Websites, out \in ResearchOutcomes :
            ProcessRowResearch(ytLink, website, out)
    \/ ResearchClock

ResearchSpec == ResearchInit /\ [][ResearchNext]_vars

\* the table contract alone
TableInit ==
    /\ LlmIdle
    /\ RunnerIdle
    /\ ResearchIdle
    /\ jobs = <<>>
    /\ ColIdle
    /\ LimiterIdle
    /\ CampaignIdle
    /\ csvCall = CsvCallIdle
    /\ gs = GsClosed
    /\ gsCall = GsCallIdle
    /\ LogIdle
    /\ dataProvider \in {"csv", "sheets"}
    /\ file = IF dataProvider = "csv" THEN ContactsCsv ELSE EmptyFile
    /\ sheet = IF dataProvider = "sheets" THEN ContactsCsv ELSE EmptyFile
    /\ table = [providers |-> [i \in Instances |->
                                IF dataProvider = "csv" THEN CsvNew ELSE GsClosed],
                call |-> NoCall]

TableNext ==
    \E i \in Instances :
        \/ TableGetRows(i)
        \/ \E rowNumber \in TableRowNumbers : TableGetRow(i, rowNumber)
        \/ \E rowNumber \in TableRowNumbers, updates \in StoreUpdates :
                TableUpdateRow(i, rowNumber, updates)
        \/ \E columnName \in ColumnNames : TableAddColumn(i, columnName)
        \/ TableClose(i)

TableSpec == TableInit /\ [][TableNext]_vars

\* reading alone: tables of up to MaxListRows records, some of them blank
MaxListRows == 3

ListHeader == <<KeyEmailAddress, createColumnName(1)>>

\* a contact emailed once, a fresh contact, and a row whose cells are blank
ListRecords ==
    {<<ValidAddress, OldEntry>>, <<InvalidAddress, EmptyString>>,
     <<EmptyString, EmptyString>>}

ListTables ==
    {[header |-> ListHeader, records |-> records] :
        records \in UNION {[1..n -> ListRecords] : n \in 0..MaxListRows}}

ListInit ==
    /\ LlmIdle
    /\ RunnerIdle
    /\ ResearchIdle
    /\ jobs = <<>>
    /\ ColIdle
    /\ LimiterIdle
    /\ CampaignIdle
    /\ csvCall = CsvCallIdle
    /\ gs = GsClosed
    /\ gsCall = GsCallIdle
    /\ LogIdle
    /\ dataProvider \in {"csv", "sheets"}
    /\ \E t \in ListTables :
        /\ file = IF dataProvider = "csv" THEN t ELSE EmptyFile
        /\ sheet = IF dataProvider = "sheets" THEN t ELSE EmptyFile
    /\ table = [providers |-> [i \in Instances |->
                                IF dataProvider = "csv" THEN CsvNew ELSE GsClosed],
                call |-> NoCall]

ListNext ==
    \E i \in Instances :
        \/ TableGetRows(i)
        \/ \E rowNumber \in 1..(MaxListRows + 1) : TableGetRow(i, rowNumber)

ListSpec == ListInit /\ [][ListNext]_vars

\* the log-entry round trip alone
LogInit == TableInit

LogNext ==
    \/ \E fields \in LogFields : LogFormat(fields)
    \/ \E i \in Instances : LogStore(i)
    \/ \E i \in Instances : LogReadBack(i)

LogSpec == LogInit /\ [][LogNext]_vars

\* one job at a time, with workers that may stall
StallInit == Init

StallNext ==
    \/ \E rowNumber \in RowNumbers, addOk \in BOOLEAN :
            jobs = <<>> /\ ProcessSingleRow(rowNumber, addOk)
    \/ \E j \in JobIds :
        \/ processRowJob(j)
        \/ UpdateRowWrite(j)
        \/ Stalled(j)

StallSpec == StallInit /\ [][StallNext]_vars

\* one single-row job whose worker may stop extending its lock
LockInit == Init

LockNext ==
    \/ \E rowNumber \in RowNumbers, addOk \in BOOLEAN :
            jobs = <<>> /\ ProcessSingleRow(rowNumber, addOk)
    \/ \E j \in JobIds :
        \/ processRowJob(j)
        \/ UpdateRowWrite(j)
        \/ LockPasses(j)
        \/ LockRenewed(j)
        \/ LockStalled(j)

LockSpec == LockInit /\ [][LockNext]_vars

\* the operator writes TRUE into the PAUSE or $IN_TALKS cell of a contact
OperatorSetsFlag(rowNumber, key) ==
    /\ LET rows == getRows(file)
           rowIndex == FindRowIndex(rows, rowNumber)
       IN /\ rowIndex # 0
          /\ ~IsFlagSet(Get(rows[rowIndex], key))
          /\ file' = writeRows(file.header,
                               MergeIntoRows(rows, rowIndex, << <<key, StrTRUE>> >>))
    /\ UNCHANGED <<jobs, colRow, colNext, otherVars>>

\* one single-row job, and an operator who flags its contact at any moment
FlagInit == Init

FlagNext ==
    \/ \E rowNumber \in RowNumbers, addOk \in BOOLEAN :
            jobs = <<>> /\ ProcessSingleRow(rowNumber, addOk)
    \/ \E j \in JobIds :
        \/ \E key \in {KeyPause, KeyInTalks} : OperatorSetsFlag(jobs[j].rowNumber, key)
        \/ processRowJob(j)
        \/ UpdateRowWrite(j)

FlagSpec == FlagInit /\ [][FlagNext]_vars

\* src/lib/queue.ts clearQueue: emailQueue.drain(), then
\* emailQueue.clean(0, 1000, 'completed') and clean(0, 1000, 'failed').
\* drain() empties the wait list: the jobs never picked up and the retried
\* jobs whose backoff delay has elapsed (promoted); the jobs still in the
\* delayed set and the active jobs are not in that list.  A job record the
\* queue deleted stays in jobs in state "drained" or "cleaned", the drained
\* one with the ids of the jobs that were active at that moment.

\* a drain that would take the active jobs with the waiting ones
DrainWithActive(promoted) ==
    {j \in JobIds : jobs[j].state \in {"waiting", "active"}} \cup promoted

Drain(promoted) ==
    {j \in JobIds : jobs[j].state = "waiting"} \cup promoted

Clean == {j \in JobIds : jobs[j].state \in {"completed", "failed"}}

ActiveJobs == {j \in JobIds : jobs[j].state = "active"}

clearQueue(promoted) ==
    /\ promoted \subseteq {j \in JobIds : jobs[j].state = "delayed"}
    /\ Drain(promoted) \cup Clean # {}
    /\ jobs' = [j \in JobIds |->
                    IF j \in Drain(promoted)
                    THEN [jobs[j] EXCEPT !.state = "drained", !.pc = "idle",
                                         !.read = <<>>,
                                         !.activeAtDrain = ActiveJobs]
                    ELSE IF j \in Clean
                    THEN [jobs[j] EXCEPT !.state = "cleaned"]
                    ELSE jobs[j]]
    /\ UNCHANGED <<file, colRow, colNext, otherVars>>

\* single-row jobs for the first contact, their workers and an operator who
\* clears the queue
DrainInit == Init

DrainNext ==
    \/ \E addOk \in BOOLEAN : ProcessSingleRow(1, addOk)
    \/ \E j \in JobIds :
        \/ processRowJob(j)
        \/ UpdateRowWrite(j)
    \/ \E promoted \in SUBSET JobIds : clearQueue(promoted)

\* what UpdateRowWrite(j) does to the job: await dataProvider.updateRow(...)
\* returns, the processor returns and the job completes
WriteBackReturns(j) ==
    /\ j \in JobIds
    /\ jobs[j].state = "active"
    /\ jobs[j].pc = "write"
    /\ SetJob(j, Completed([jobs[j] EXCEPT !.writes = @ + 1]))

\* a write-back that has started is not left pending forever
DrainSpec ==
    /\ DrainInit
    /\ [][DrainNext]_vars
    /\ \A j \in 1..MaxJobs : WF_jobs(WriteBackReturns(j))

\* one job of either type, workers that may stall and an operator who may
\* clear the queue.  Workers keep running: a job that can be picked up is
\* picked up, and a write-back that has started returns.
LiveInit == Init

LiveNext ==
    \/ \E rowNumber \in RowNumbers, addOk \in BOOLEAN :
            jobs = <<>> /\ ProcessSingleRow(rowNumber, addOk)
    \/ \E to \in {ValidAddress, InvalidAddress} :
            jobs = <<>> /\ AddSendEmailJob(1, to, createColumnName(1))
    \/ \E j \in JobIds :
        \/ processRowJob(j)
        \/ sendEmailJob(j)
        \/ UpdateRowWrite(j)
        \/ Stalled(j)
    \/ \E promoted \in SUBSET JobIds : clearQueue(promoted)

\* weak fairness of processRowJob(j), its enabling condition written out: the
\* processor can run exactly when the job can be picked up
PickUpFair(j) ==
    \/ []<>~(j \in JobIds /\ Startable(j, "PROCESS_ROW"))
    \/ []<><<j \in JobIds /\ processRowJob(j)>>_jobs

LiveSpec ==
    /\ LiveInit
    /\ [][LiveNext]_vars
    /\ \A j \in 1..MaxJobs :
            /\ PickUpFair(j)
            /\ WF_jobs(j \in JobIds /\ sendEmailJob(j))
            /\ WF_jobs(WriteBackReturns(j))

\* single-row jobs whose language-model calls may fail, under either
\* personalizer
ContentInit ==
    /\ RunnerIdle
    /\ ResearchIdle
    /\ file = ContactsCsv
    /\ jobs = <<>>
    /\ ColIdle
    /\ StoreIdle
    /\ LimiterIdle
    /\ CampaignIdle
    /\ llm \in [personalizer : Personalizers, failed : {{}}]

ContentNext ==
    \/ \E rowNumber \in RowNumbers, addOk \in BOOLEAN : ProcessSingleRow(rowNumber, addOk)
    \/ \E j \in JobIds :
        \/ processRowJob(j)
        \/ LlmCallFails(j)
        \/ UpdateRowWrite(j)

ContentSpec == ContentInit /\ [][ContentNext]_vars

-----------------------------------------------------------------------------
(* Properties of the column policy *)

\* a value that is empty or whitespace-only
Blank(value) ==
    value \in {JsNull, JsUndefined} \/ \A i \in 1..Len(value) : value[i] \in Whitespace

\* the positions of row that hold a sequence column, and the blank ones
SequenceColumns(row) == {i \in 1..Len(row) : parseColumnIndex(row[i][1]) # NullIndex}

BlankSlots(row) == {i \in SequenceColumns(row) : Blank(row[i][2])}

-----------------------------------------------------------------------------
(* Properties of the queue, the worker and the Row Store *)

RowJobs == {j \in JobIds : jobs[j].type = "PROCESS_ROW"}

\* the value the file f holds for row rowNumber under column
Stored(f, rowNumber, column) ==
    Get(RowObject(f.header, f.records[rowNumber], rowNumber), column)

\* updateRow of job j has returned
Returned(j) == jobs[j].state = "completed" /\ jobs[j].writes = 1

\* the file holds every field job j wrote
HoldsUpdates(j) ==
    \A i \in 1..Len(Updates(jobs[j])) :
        Stored(file, jobs[j].rowNumber, Updates(jobs[j])[i][1])
            = CsvCell(Updates(jobs[j])[i][2])

\* the step in which job j completes its write leaves its log entry in its column
WriteStoresEntry(j) ==
    (jobs[j].pc = "write" /\ jobs'[j].state = "completed")
        => Stored(file', jobs[j].rowNumber, jobs[j].nextColumn) = jobs[j].logEntry

\* C1: when two updateRow calls for two different rows, each through its own
\* provider, have both returned (and no other call has written), the file
\* holds the fields written by both.
ConcurrentUpdatesOfDifferentRowsKept ==
    \A a, b \in JobIds :
        ( /\ jobs[a].rowNumber # jobs[b].rowNumber
          /\ Returned(a) /\ Returned(b)
          /\ \A k \in JobIds \ {a, b} : jobs[k].writes = 0 )
        => HoldsUpdates(a) /\ HoldsUpdates(b)

\* C2, as the specification states it: with only runAll/runOne jobs in the
\* queue, all of them for one row, a sequence column that holds a non-empty
\* entry in the file keeps its value in every step.
WrittenSlotNeverChanges ==
    [][ (\A j, k \in JobIds : /\ jobs[j].type = "PROCESS_ROW"
                              /\ jobs[j].rowNumber = jobs[k].rowNumber)
        => \A r \in 1..Len(file.records), c \in 1..Len(file.header) :
              ( /\ parseColumnIndex(file.header[c]) # NullIndex
                /\ ~Blank(file.records[r][c]) )
              => Stored(file', r, file.header[c]) = file.records[r][c] ]_vars

\* C2, amended: a row-processing job only ever works on (and writes) a
\* sequence column that is empty or whitespace-only in the snapshot the job
\* carries; a column filled in that snapshot is never chosen.
RowJobWritesBlankSlotOfSnapshot ==
    \A j \in RowJobs :
        jobs[j].nextColumn # JsNull =>
            /\ parseColumnIndex(jobs[j].nextColumn) # NullIndex
            /\ Blank(Get(jobs[j].rowData, jobs[j].nextColumn))

\* a job whose snapshot had slot 1 filled wrote slot 2, slot 1 keeps its entry
FilledSlotSkippedWitness ==
    \E j \in RowJobs :
        /\ Returned(j)
        /\ ~Blank(Get(jobs[j].rowData, createColumnName(1)))
        /\ jobs[j].nextColumn = createColumnName(2)
        /\ Stored(file, jobs[j].rowNumber, createColumnName(1))
                = Get(jobs[j].rowData, createColumnName(1))
        /\ Stored(file, jobs[j].rowNumber, createColumnName(2)) = jobs[j].logEntry

ContentRetryCompletesOnce ==
    \A j \in RowJobs :
        (jobs[j].contentFails = 2 /\ jobs[j].storageFails = 0) =>
            /\ jobs[j].state \in {"delayed", "active", "completed"}
            /\ jobs[j].state = "delayed" =>
                    /\ jobs[j].starts = 2
                    /\ jobs[j].sendCalls = 0
                    /\ jobs[j].updateCalls = 0
                    /\ jobs[j].writes = 0
            /\ jobs[j].state \in {"active", "completed"} =>
                    /\ jobs[j].starts = 3
                    /\ jobs[j].personalizeCalls = 3
                    /\ jobs[j].sendCalls = 1
                    /\ jobs[j].updateCalls = 1
            /\ jobs[j].state = "active" => jobs[j].pc = "write" /\ jobs[j].writes = 0
            /\ jobs[j].state = "completed" => jobs[j].writes = 1

\* the job completed on attempt 3 after two content failures
ContentRetryWitness ==
    \E j \in RowJobs :
        /\ jobs[j].contentFails = 2
        /\ jobs[j].state = "completed"
        /\ jobs[j].starts = 3
        /\ jobs[j].sendCalls = 1
        /\ jobs[j].writes = 1

\* the status a log entry records
StatusOf(logEntry) ==
    LET parsed == parseEmailLogEntry(logEntry)
    IN IF parsed = JsNull THEN JsUndefined ELSE Get(parsed, KeyStatus)

\* C5: when sendEmail reports FAILED (and the Row Store does not reject),
\* the job does not fail: it goes on to updateRow with a log entry of status
\* FAILED for the chosen column, the write leaves that entry in the column,
\* the job completes, has sent once, and no step changes a completed job.
FailedDeliveryIsLogged ==
    /\ [](\A j \in JobIds :
            (jobs[j].sendStatus = "FAILED" /\ jobs[j].storageFails = 0) =>
                /\ jobs[j].state \in {"active", "completed"}
                /\ jobs[j].nextColumn # JsNull
                /\ StatusOf(jobs[j].logEntry) = <<"FAILED">>
                /\ jobs[j].sendCalls = 1
                /\ jobs[j].state = "active" => jobs[j].pc = "write"
                /\ jobs[j].state = "completed" => jobs[j].writes = 1)
    /\ [][\A j \in JobIds :
            /\ jobs[j].sendStatus = "FAILED" => WriteStoresEntry(j)
            /\ jobs[j].state = "completed" => jobs'[j] = jobs[j]]_vars

\* a job completed with a FAILED entry in its column
FailedDeliveryWitness ==
    \E j \in JobIds :
        /\ Returned(j)
        /\ jobs[j].sendStatus = "FAILED"
        /\ StatusOf(Stored(file, jobs[j].rowNumber, jobs[j].nextColumn)) = <<"FAILED">>

\* the address a job sends to
Recipient(j) ==
    IF jobs[j].type = "PROCESS_ROW" THEN Get(jobs[j].rowData, KeyEmailAddress)
    ELSE jobs[j].to

\* C6: a job whose recipient address is invalid calls neither sendEmail nor
\* updateRow, is attempted once at most and is never put back to wait (it is
\* waiting for its first attempt, or failed for good).
InvalidRecipientFailsOnce ==
    \A j \in JobIds :
        ~validateEmail(Recipient(j)) =>
            /\ jobs[j].sendCalls = 0
            /\ jobs[j].updateCalls = 0
            /\ jobs[j].starts <= 1
            /\ jobs[j].state \in {"waiting", "failed"}

LowerCase(c) ==
    CASE c = "T" -> "t" [] c = "R" -> "r" [] c = "U" -> "u" [] c = "E" -> "e"
      [] OTHER -> c

\* boolean true, or the string "true" in any letter casing
Truthy(value) ==
    value = JsTrue \/ [i \in 1..Len(value) |-> LowerCase(value[i])] = Strtrue

\* C7: no job is in the queue for a row whose PAUSE or $IN_TALKS flag is
\* truthy (boolean true, or "true" in any letter casing).
PausedRowNeverEnqueued ==
    \A j \in RowJobs :
        /\ ~Truthy(Get(jobs[j].rowData, KeyPause))
        /\ ~Truthy(Get(jobs[j].rowData, KeyInTalks))

\* C9: a row-processing job whose snapshot has no empty sequence column is
\* waiting for its first attempt or completed by it, and has called neither
\* research, personalize, sendEmail nor updateRow.
NoEmptySlotIsNoOp ==
    \A j \in RowJobs :
        BlankSlots(jobs[j].rowData) = {} =>
            /\ jobs[j].state \in {"waiting", "completed"}
            /\ jobs[j].starts = IF jobs[j].state = "completed" THEN 1 ELSE 0
            /\ jobs[j].attemptsMade = 0
            /\ jobs[j].nextColumn = JsNull
            /\ jobs[j].researchCalls = 0
            /\ jobs[j].personalizeCalls = 0
            /\ jobs[j].sendCalls = 0
            /\ jobs[j].updateCalls = 0
            /\ jobs[j].writes = 0

\* a job for row 1, enqueued when both slots were filled, completed untouched
NoEmptySlotWitness ==
    \E j \in RowJobs :
        /\ jobs[j].rowNumber = 1
        /\ BlankSlots(jobs[j].rowData) = {}
        /\ jobs[j].state = "completed"
        /\ jobs[j].starts = 1

\* C10: two row-processing jobs for the same row that carry the same
\* snapshot and have both chosen a column have chosen the same one, and the
\* write of each leaves its own log entry there, whatever the column held.
SameSnapshotSameSlot ==
    /\ [](\A a, b \in RowJobs :
            ( /\ jobs[a].rowNumber = jobs[b].rowNumber
              /\ jobs[a].rowData = jobs[b].rowData
              /\ jobs[a].nextColumn # JsNull
              /\ jobs[b].nextColumn # JsNull )
            => jobs[a].nextColumn = jobs[b].nextColumn)
    /\ [][\A j \in RowJobs : WriteStoresEntry(j)]_vars

\* both jobs sent an email and wrote the same column of the same row; the
\* file holds the entry of one of them only
OverwrittenEntryWitness ==
    \E a, b \in RowJobs :
        /\ a # b
        /\ jobs[a].rowNumber = jobs[b].rowNumber
        /\ jobs[a].rowData = jobs[b].rowData
        /\ Returned(a) /\ Returned(b)
        /\ jobs[a].sendStatus = "SENT" /\ jobs[b].sendStatus = "SENT"
        /\ jobs[a].nextColumn = jobs[b].nextColumn
        /\ jobs[a].logEntry # jobs[b].logEntry
        /\ Stored(file, jobs[b].rowNumber, jobs[b].nextColumn) = jobs[b].logEntry
        /\ \A r \in 1..Len(file.records), c \in 1..Len(file.header) :
                file.records[r][c] # jobs[a].logEntry

-----------------------------------------------------------------------------
(* Properties of the Row Store *)

\* C11: while an updateRow call of the flat-file backend is between its read
\* and the end of its write, and after it was interrupted there, the file is
\* a complete table (it has its header line) with no fewer rows than it had
\* when the call began.
InterruptedUpdateKeepsRows ==
    csvCall.pc \in {"read", "opened", "interrupted"} =>
        /\ file.header # <<>>
        /\ Len(file.records) >= Len(csvCall.before.records)

-----------------------------------------------------------------------------
(* Properties of the rate limiter *)

\* C12: the job starts within one window of 60 seconds (the starts at now, at
\* now - 20 s and at now - 40 s) are never more than 10.
StartsPerSlidingWindow ==
    limiter.recent[1] + limiter.recent[2] + limiter.recent[3] <= 10

-----------------------------------------------------------------------------
(* Properties of the campaign orchestrator *)

Smaller(a, b) == IF a < b THEN a ELSE b

\* the rows of the table that are neither paused nor in talks
EligibleRows == {n \in 1..Len(file.records) : ~shouldSkipRow(getRows(file)[n])}

\* C13: after runCampaign(limit), the number of jobs enqueued is at most the
\* smaller of the limit and the configured ceiling, for every table, every
\* ceiling >= 0 and every limit >= 0.
EnqueuedWithinLimitAndCeiling ==
    run.called => Len(jobs) <= Smaller(run.maxRows, maxEmailsPerRun)

\* C14: after runCampaign(N) with N >= 1 below the ceiling, on a table with
\* at least N eligible rows and a queue that accepts every job, exactly N jobs
\* are enqueued, wherever the paused rows are in the table.
FirstEligibleRowsEnqueued ==
    ( /\ run.called /\ run.addOk
      /\ run.maxRows >= 1
      /\ run.maxRows < maxEmailsPerRun
      /\ Cardinality(EligibleRows) >= run.maxRows )
    => Len(jobs) = run.maxRows

\* the calls of sendEmail made by the jobs of q, over all their attempts
RECURSIVE SendCallsIn(_)
SendCallsIn(q) == IF q = <<>> THEN 0 ELSE q[1].sendCalls + SendCallsIn(Tail(q))

\* C15: the emails handed to sendEmail by the jobs of one campaign run, over
\* every attempt of every job, are never more than the configured ceiling.
SendsWithinCeiling ==
    run.called => SendCallsIn(jobs) <= maxEmailsPerRun

-----------------------------------------------------------------------------
(* Properties of the remote-spreadsheet Row Store *)

\* the cell the sheet s holds for row rowNumber under the header column
SheetStored(s, rowNumber, column) ==
    Get(rowToContactRow(loadHeaders(s), s.records[rowNumber], rowNumber + 1), column)

\* C16: an updateRow call of the remote backend for a stored row, with a
\* field that was not a column when the call began, has returned successfully
\* and the row holds the field's value in the new column.
UpdateWithNewColumnWritesRow ==
    ( /\ gsCall.result # "none"
      /\ gsCall.rowNumber \in 1..Len(gsCall.before.sheet.records)
      /\ NewColumns(loadHeaders(gsCall.before.sheet), gsCall.updates) # <<>> )
    => /\ gsCall.result = "returned"
       /\ \A i \in 1..Len(gsCall.updates) :
            SheetStored(sheet, gsCall.rowNumber, gsCall.updates[i][1])
                = SheetValue(gsCall.updates[i][2])

\* the rows a provider reads from the sheet s
SheetRows(s) == ContactRowsFrom(loadHeaders(s), s.records, 1)

\* C17: an updateRow call with a row number the table does not hold fails
\* with row-not-found and changes nothing. Flat file: the call has thrown and
\* the file is the file it read. Remote backend: the call has thrown
\* row-not-found, the sheet (header row and rows, so no new column) is as it
\* was, and the cache is the cache the provider had or, when it had none, the
\* rows as stored.
UnknownRowUpdateChangesNothing ==
    /\ ( /\ csvCall.pc # "none"
         /\ FindRowIndex(getRows(csvCall.before), csvCall.rowNumber) = 0 )
       => /\ csvCall.pc = "thrown"
          /\ file = csvCall.before
    /\ ( /\ gsCall.result # "none"
         /\ FindRowIndex(SheetRows(gsCall.before.sheet), gsCall.rowNumber) = 0 )
       => /\ gsCall.result = "RowNotFound"
          /\ sheet = gsCall.before.sheet
          /\ gs.cache = IF gsCall.before.gs.cache # JsNull
                        THEN gsCall.before.gs.cache
                        ELSE SheetRows(gsCall.before.sheet)

\* an update with a new field for a row the loaded provider does not hold
UnknownRowWitness ==
    /\ gsCall.result = "RowNotFound"
    /\ gsCall.before.gs.cache # JsNull
    /\ NewColumns(gsCall.before.gs.headers, gsCall.updates) # <<>>
    /\ sheet.records # <<>>

-----------------------------------------------------------------------------
(* Properties of failures inside the processor *)

\* C18: every updateRow call that fails makes its attempt a failed attempt:
\* the attempts counted as failed are exactly the attempts in which the
\* content generator, the recipient check or the Row Store failed; a failed
\* updateRow call writes nothing and does not complete the job, which is
\* delayed for its next attempt while fewer than 3 attempts have failed and
\* failed for good otherwise.
StoreFailureFailsAttempt ==
    \A j \in JobIds :
        /\ jobs[j].attemptsMade =
                jobs[j].contentFails + jobs[j].recipientFails + jobs[j].storageFails
        /\ jobs[j].updateCalls =
                jobs[j].storageFails + jobs[j].writes
                    + (IF jobs[j].pc = "write" THEN 1 ELSE 0)
        /\ (jobs[j].storageFails >= 1 /\ jobs[j].updateCalls = jobs[j].storageFails) =>
                /\ jobs[j].writes = 0
                /\ jobs[j].state = IF jobs[j].attemptsMade < 3 THEN "delayed" ELSE "failed"
        /\ jobs[j].state = "completed" =>
                jobs[j].updateCalls = 0 \/ jobs[j].writes = 1

\* the Row Store rejected the write-back of attempt 1, the job was retried
\* and completed on attempt 2
StoreFailureRetriedWitness ==
    \E j \in JobIds :
        /\ jobs[j].storageFails = 1
        /\ jobs[j].attemptsMade = 1
        /\ jobs[j].starts = 2
        /\ jobs[j].state = "completed"
        /\ jobs[j].writes = 1

\* C19: an attempt whose language-model call failed is a failed attempt of
\* its job and made no send (so no update either): the attempts whose call
\* failed are among the failed attempts, and together with the sends they do
\* not outnumber the attempts started.
LlmFailureFailsAttempt ==
    \A j \in JobIds :
        /\ Cardinality(LlmFailed(j)) <= jobs[j].attemptsMade
        /\ Cardinality(LlmFailed(j)) + jobs[j].sendCalls <= jobs[j].starts

-----------------------------------------------------------------------------
(* Properties of the states of a job.  Waiting is "waiting"; Failed-       *)
(* Retryable, followed by Waiting, is "delayed"; Failed-Terminal is        *)
(* "failed".  A step of the processor starts from Waiting, passes through  *)
(* Active (starts grows by one) and is seen again at its next state.       *)

\* the job is picked up in this step
PickedUp(j) == jobs'[j].starts = jobs[j].starts + 1

\* the transitions of job j the state diagram lists
ListedTransition(j) ==
    \/ jobs'[j] = jobs[j]
    \/ /\ jobs[j].state \in {"waiting", "delayed"}
       /\ PickedUp(j)
       /\ jobs'[j].state \in {"active", "completed", "delayed", "failed"}
    \/ /\ jobs[j].state = "active"
       /\ ~PickedUp(j)
       /\ jobs'[j].state \in {"completed", "delayed", "failed"}

\* an active job that stalls goes back to Waiting without having failed
StallTransition(j) ==
    /\ jobs[j].state = "active"
    /\ jobs'[j].state = "waiting"
    /\ jobs'[j].stalls = jobs[j].stalls + 1
    /\ jobs'[j].stalls <= 3
    /\ jobs'[j].attemptsMade = jobs[j].attemptsMade

\* C20 (as the code has it): every job follows only the listed transitions,
\* Waiting -> Active, Active -> Completed, Active -> Failed-Retryable ->
\* Waiting and Active -> Failed-Terminal, and one more: an Active job that
\* stalls returns to Waiting, at most 3 times; Completed and Failed-Terminal
\* are absorbing.
JobTransitionsWithStall ==
    [][\A j \in JobIds :
        /\ ListedTransition(j) \/ StallTransition(j)
        /\ jobs[j].state \in {"completed", "failed"} => jobs'[j] = jobs[j]]_vars

\* C20 (as stated): every job follows only the listed transitions; Completed
\* and Failed-Terminal are absorbing.
JobTransitionsListed ==
    [][\A j \in JobIds :
        /\ ListedTransition(j)
        /\ jobs[j].state \in {"completed", "failed"} => jobs'[j] = jobs[j]]_vars

\* a job that stalled, was picked up again, failed once and then completed
StalledJobCompletedWitness ==
    \E j \in JobIds :
        /\ jobs[j].stalls = 1
        /\ jobs[j].attemptsMade = 1
        /\ jobs[j].starts = 3
        /\ jobs[j].state = "completed"

-----------------------------------------------------------------------------
(* Properties of the orchestrator *)

-----------------------------------------------------------------------------
(* Properties of the write-back *)

\* the columns the write-back of job j sets
WrittenColumns(j) == {jobs[j].nextColumn, KeyIsSent, KeySentBy}

\* C22: the step in which the updateRow call of a row-processing job writes
\* leaves the log entry in the chosen column, true in is_sent and the bot name
\* in sent_by on the job's row, and leaves every other field of that row and
\* every field of every other row as it was.
WriteBackChangesOnlyItsFields ==
    [][\A j \in RowJobs :
        (jobs[j].pc = "write" /\ jobs'[j].state = "completed") =>
            /\ file'.header = file.header
            /\ Len(file'.records) = Len(file.records)
            /\ Stored(file', jobs[j].rowNumber, jobs[j].nextColumn) = jobs[j].logEntry
            /\ Stored(file', jobs[j].rowNumber, KeyIsSent) = CsvCell(JsTrue)
            /\ Stored(file', jobs[j].rowNumber, KeySentBy) = BotName
            /\ \A n \in 1..Len(file.records), k \in 1..Len(file.header) :
                (n # jobs[j].rowNumber \/ file.header[k] \notin WrittenColumns(j))
                    => Stored(file', n, file.header[k]) = Stored(file, n, file.header[k])
    ]_vars

\* the emails to row n that were delivered (status SENT) by the jobs
DeliveredTo(n) ==
    {j \in JobIds : jobs[j].rowNumber = n /\ jobs[j].sendCalls > jobs[j].deliveryFails}

\* C23: a row whose is_sent was not set in the table as first loaded has
\* is_sent set only if some job delivered an email to it with status SENT.
SentFlagOnlyAfterDelivery ==
    \A n \in 1..Len(file.records) :
        ( /\ IsFlagSet(Stored(file, n, KeyIsSent))
          /\ ~IsFlagSet(Stored(ContactsCsv, n, KeyIsSent)) )
        => DeliveredTo(n) # {}

-----------------------------------------------------------------------------
(* Properties of the research step and the research cache *)

\* the research step of an attempt has run
Attempted == research.attempt # NoAttempt

\* a website value the site variant can be given
UsableWebsite(website) ==
    IsString(website) /\ \E i \in 1..Len(website) : website[i] \notin Whitespace

\* C24 (as the code has it): an attempt calls the site variant exactly when
\* yt_link is the literal "N/A" and website is a non-blank string, and the
\* channel variant exactly when yt_link is anything else; when yt_link is
\* "N/A" and website is missing or blank it calls neither and throws; it
\* never calls both.
ResearchVariantBySentinel ==
    Attempted =>
        /\ research.attempt.site = 1 <=>
                (research.attempt.ytLink = Sentinel /\ UsableWebsite(research.attempt.website))
        /\ research.attempt.channel = 1 <=> research.attempt.ytLink # Sentinel
        /\ research.attempt.site + research.attempt.channel <= 1
        /\ (research.attempt.ytLink = Sentinel /\ ~UsableWebsite(research.attempt.website))
                => research.attempt.threw

\* C24 (as stated): an attempt calls the site variant exactly when yt_link is
\* the literal "N/A" and the channel variant otherwise, never both.
SiteVariantExactlyOnSentinel ==
    Attempted =>
        /\ research.attempt.site = 1 <=> research.attempt.ytLink = Sentinel
        /\ research.attempt.channel = 1 <=> research.attempt.ytLink # Sentinel
        /\ research.attempt.site + research.attempt.channel <= 1

\* an attempt on a snapshot with yt_link "N/A" and a blank website
SentinelWithoutWebsiteWitness ==
    /\ research.attempt.ytLink = Sentinel
    /\ research.attempt.website = <<" ">>
    /\ research.attempt.threw
    /\ research.attempt.site = 0
    /\ research.attempt.channel = 0

\* C25: whenever an attempt has called a research function, whatever the
\* external services did (key missing, API error, fetch timeout, HTTP error,
\* completion error, a link that is no URL), the function has returned a
\* research object with a summary and has not raised, and the attempt has
\* not thrown in its research step.
ResearchNeverRaises ==
    (Attempted /\ research.attempt.site + research.attempt.channel = 1) =>
        /\ ~research.attempt.raised
        /\ ~research.attempt.threw
        /\ research.attempt.data.source \in {"channel", "site"}
        /\ research.attempt.data.summary \in {"generated", "fallback", "minimal"}

\* the site variant returned the minimal fallback after its fetch failed
SiteFetchFailedWitness ==
    /\ research.attempt.site = 1
    /\ research.attempt.data.channel = "minimal"
    /\ research.attempt.external = 1
    /\ ~research.attempt.raised

\* research that used a fallback for the channel data or for the summary
Degraded(data) == data.channel # "found" \/ data.summary # "generated"

\* C26: every entry of the research cache holds the result of research that
\* did not degrade: its channel (or page) data was fetched and its summary
\* was generated.
CacheHoldsOnlySuccessfulResearch ==
    \A key \in ResearchKeys :
        research.cache[key] # NoEntry => ~Degraded(research.cache[key].data)

\* C27: a lookup that finds an entry for its key inserted at time t returns
\* the entry's data without calling an external service and leaves the entry
\* alone when the lookup is made before t + 3600000 ms, and makes fresh
\* research (its result is of the time of the lookup, not the entry's) when
\* it is made at or after t + 3600000 ms; the passing of time alone never
\* removes or changes an entry.
CacheEntryLivesOneHour ==
    /\ [](( /\ Attempted
            /\ research.attempt.site + research.attempt.channel = 1
            /\ research.attempt.before # NoEntry ) =>
            /\ research.attempt.before.expiresAt
                    = research.attempt.before.data.at + 3600000
            /\ research.attempt.at < research.attempt.before.data.at + 3600000 =>
                    /\ research.attempt.data = research.attempt.before.data
                    /\ research.attempt.external = 0
                    /\ research.cache[research.attempt.key] = research.attempt.before
            /\ research.attempt.at >= research.attempt.before.data.at + 3600000 =>
                    /\ research.attempt.data.at = research.attempt.at
                    /\ research.attempt.data # research.attempt.before.data)
    /\ [][research'.now # research.now => research'.cache = research.cache]_vars

\* a lookup made exactly one hour after the insertion researched again
LookupAtExpiryWitness ==
    /\ research.attempt.before # NoEntry
    /\ research.attempt.at = research.attempt.before.data.at + 3600000
    /\ research.attempt.data.at = research.attempt.at
    /\ research.attempt.external >= 1

\* two objects with the same properties
SameObject(a, b) ==
    /\ {a[k][1] : k \in 1..Len(a)} = {b[k][1] : k \in 1..Len(b)}
    /\ \A k \in 1..Len(a) : Get(b, a[k][1]) = a[k][2]

\* this step is a getRow that follows a returned updateRow of the same row
\* on the same instance
GetFollowsUpdate ==
    /\ table.call.op = "updateRow"
    /\ table.call.result = "returned"
    /\ table'.call.op = "getRow"
    /\ table'.call.instance = table.call.instance
    /\ table'.call.rowNumber = table.call.rowNumber

\* the fields passed, each as the backend keeps it: the flat file holds
\* String(value), the remote provider's cache holds the value passed
AsKept(updates) ==
    [k \in 1..Len(updates) |->
        <<updates[k][1],
          IF dataProvider = "csv" THEN CsvCell(updates[k][2]) ELSE updates[k][2]>>]

\* the cells the sheet holds for the contact row, under the instance's headers
AgreesWithSheet(contactRow, headers, cells) ==
    \A k \in 1..Len(headers) :
        SheetCell(cells, k) = SheetValue(Get(contactRow, headers[k]))

\* C28 (as stated): a getRow that follows a returned updateRow of the same
\* row on the same instance returns the row's previous values with exactly
\* the fields passed merged over them, on both backends, and in the remote
\* backend the sheet row holds the cached row.
GetReturnsFieldsMerged ==
    [][GetFollowsUpdate =>
        /\ table'.call.result # JsNull
        /\ SameObject(table'.call.result,
                      Merge(table.call.previous, table.call.updates))
        /\ dataProvider = "sheets" =>
                AgreesWithSheet(table'.call.result,
                                table.providers[table.call.instance].headers,
                                sheet.records[table.call.rowNumber])]_vars

\* C28 (amended): a getRow that follows a returned updateRow of the same row
\* on the same instance returns the row's previous values with the fields
\* passed merged over them, each field as the backend keeps it: converted to
\* text in the flat file (true becomes 'true'), as passed in the remote
\* provider's cache; in the remote backend each cell of the sheet row holds
\* the text form of the cached value (true is written as 'TRUE').
GetReturnsFieldsAsKept ==
    [][GetFollowsUpdate =>
        /\ table'.call.result # JsNull
        /\ SameObject(table'.call.result,
                      Merge(table.call.previous, AsKept(table.call.updates)))
        /\ dataProvider = "sheets" =>
                AgreesWithSheet(table'.call.result,
                                table.providers[table.call.instance].headers,
                                sheet.records[table.call.rowNumber])]_vars

\* getRow on the flat file returned row 1 with the fields an updateRow wrote
GetAfterUpdateWitness ==
    /\ dataProvider = "csv"
    /\ table.call.op = "getRow"
    /\ table.call.rowNumber = 1
    /\ Get(table.call.result, KeyIsSent) = Strtrue
    /\ Get(table.call.result, createColumnName(2)) = <<"x">>

\* the rows a provider loads from the remote table
LoadedFrom(s) == ContactRowsFrom(loadHeaders(s), s.records, 1)

\* this step is the call op of the instance whose call table.call is
NextCallIs(op) ==
    /\ table'.call.op = op
    /\ table'.call.instance = table.call.instance

\* this step is a call op of an instance of the remote backend that holds a
\* cached row set
CallOnCache(op) ==
    /\ dataProvider = "sheets"
    /\ table'.call.op = op
    /\ table.providers[table'.call.instance].cache # JsNull

\* C29: in the remote backend, (1) a getRows that follows an addColumn which
\* added a column on the same instance returns the rows loaded from the sheet,
\* each with the new column; (2) no instance ever holds a cached row that
\* lacks a column the instance knows; (3) while an instance holds a cached
\* row set, getRows returns it, getRow returns its row, and updateRow works
\* on its row and changes no other cached row; (4) only addColumn adding a
\* column and close() drop a cached row set.
CacheReloadedOnlyAfterNewColumn ==
    /\ [][(/\ dataProvider = "sheets"
           /\ table.call.op = "addColumn"
           /\ table.call.result = "added"
           /\ NextCallIs("getRows")) =>
            /\ table'.call.result = LoadedFrom(sheet)
            /\ \A n \in 1..Len(table'.call.result) :
                    HasKey(table'.call.result[n], table.call.columnName)]_vars
    /\ [](dataProvider = "sheets" =>
            \A i \in Instances :
                table.providers[i].cache # JsNull =>
                    \A n \in 1..Len(table.providers[i].cache),
                       k \in 1..Len(table.providers[i].headers) :
                        HasKey(table.providers[i].cache[n], table.providers[i].headers[k]))
    /\ [][CallOnCache("getRows") =>
            /\ table'.call.result = table.providers[table'.call.instance].cache
            /\ table'.providers = table.providers]_vars
    /\ [][CallOnCache("getRow") =>
            /\ table'.call.result =
                    FindRow(table.providers[table'.call.instance].cache,
                            table'.call.rowNumber)
            /\ table'.providers = table.providers]_vars
    /\ [][(CallOnCache("updateRow") /\ table'.call.result = "returned") =>
            LET i == table'.call.instance
                cache == table.providers[i].cache
            IN /\ table'.call.previous = FindRow(cache, table'.call.rowNumber)
               /\ Len(table'.providers[i].cache) = Len(cache)
               /\ \A n \in 1..Len(cache) :
                    RowNumberOf(cache[n]) # table'.call.rowNumber =>
                        table'.providers[i].cache[n] = cache[n]]_vars
    /\ [][\A i \in Instances :
            (/\ dataProvider = "sheets"
             /\ table.providers[i].cache # JsNull
             /\ table'.providers[i].cache = JsNull) =>
                /\ table'.call.instance = i
                /\ \/ table'.call.op = "close"
                   \/ Len(sheet'.header) > Len(sheet.header)]_vars

\* a getRows returned rows that all carry the column an addColumn added,
\* while the other instance still holds rows without it
ReloadedWithNewColumnWitness ==
    /\ dataProvider = "sheets"
    /\ table.call.op = "getRows"
    /\ table.call.result # <<>>
    /\ \A n \in 1..Len(table.call.result) :
            HasKey(table.call.result[n], createColumnName(3))
    /\ \E i \in Instances :
            /\ table.providers[i].cache # JsNull
            /\ ~HasKey(table.providers[i].cache[1], createColumnName(3))

\* how many columns of the table are named columnName
ColumnCount(t, columnName) ==
    Cardinality({k \in 1..Len(t.header) : t.header[k] = columnName})

\* C30: on either backend, after an addColumn call the header has exactly one
\* column of the name passed, and an addColumn call that follows an addColumn
\* call with the same name reports the column as existing and leaves the
\* table as it was.
AddColumnTwiceLeavesOneColumn ==
    /\ [](table.call.op = "addColumn" =>
            ColumnCount(Table, table.call.columnName) = 1)
    /\ [][(/\ table.call.op = "addColumn"
           /\ table'.call.op = "addColumn"
           /\ table'.call.columnName = table.call.columnName) =>
            /\ table'.call.result = "exists"
            /\ file' = file
            /\ sheet' = sheet]_vars

\* the records of the table that have a cell with content, in storage order
RecordsWithContent(t) == SelectSeq(t.records, HasContent)

\* what getRows returns on the table, by the backend
Listed(i) ==
    IF dataProvider = "csv" THEN getRows(file)
    ELSE GsGetRows(table.providers[i], sheet).cache

\* C31: getRows returns one row per record that has content, in storage
\* order, labelled 1..N and holding the record's cells; getRow returns the
\* row getRows labels with the number asked for, or null.
ListLabelsRowsOneToN ==
    /\ table.call.op = "getRows" =>
        LET rows == table.call.result
            kept == RecordsWithContent(Table)
        IN /\ Len(rows) = Len(kept)
           /\ \A n \in 1..Len(rows) :
                /\ RowNumberOf(rows[n]) = n
                /\ n <= Len(kept) =>
                    \A k \in 1..Len(Table.header) :
                        Get(rows[n], Table.header[k]) = kept[n][k]
    /\ table.call.op = "getRow" =>
        table.call.result = FindRow(Listed(table.call.instance), table.call.rowNumber)

\* the value holds no separator
NoBar(value) == \A k \in 1..Len(value) : value[k] # " | "

\* what was parsed has the four fields that were formatted, and no subject
\* when none was written
ParsedIsFields ==
    /\ log.parsed # JsNull
    /\ Get(log.parsed, KeyTimestamp) = log.fields.timestamp
    /\ Get(log.parsed, KeyMessageId) = log.fields.messageId
    /\ Get(log.parsed, KeyTemplateName) = log.fields.templateName
    /\ Get(log.parsed, KeyStatus) = log.fields.status
    /\ Falsy(log.fields.subject) => ~HasKey(log.parsed, KeySubject)

\* C32 (as stated): for every timestamp, message identifier, template and
\* status, the entry formatEmailLogEntry makes is parsed into the same four
\* values, without a subject when none was written, both at once and after
\* the entry was written by updateRow and read back by getRow.
LogEntryRoundTrip == log.pc \in {"formatted", "read"} => ParsedIsFields

\* C32 (amended): the same, for fields that hold no separator.
LogEntryRoundTripWithoutBar ==
    (/\ log.pc \in {"formatted", "read"}
     /\ NoBar(log.fields.timestamp)
     /\ NoBar(log.fields.messageId)
     /\ NoBar(log.fields.templateName)
     /\ NoBar(log.fields.status)) => ParsedIsFields

\* an entry without subject came back from the sheet and was parsed
LogReadBackWitness ==
    /\ log.pc = "read"
    /\ dataProvider = "sheets"
    /\ log.fields.subject = JsUndefined
    /\ log.fields.messageId = <<"msg_1">>
    /\ NoBar(log.fields.templateName)
    /\ Get(log.parsed, KeyStatus) = <<"FAILED">>

\* C33: draining the queue removes only jobs that are Waiting (never picked
\* up, or retried and back in the wait list).  A job that is Active when the
\* queue is cleared is left as it is, together with the file; from Active a
\* job moves only to Completed, with its write-back made, or to a counted
\* failure; and an Active job whose processor is in its write-back leaves
\* Active.
DrainedJobs == {j \in JobIds : jobs[j].state = "drained"}

RemovedWereWaiting ==
    \A j \in JobIds :
        jobs[j].state # "drained" /\ jobs'[j].state = "drained"
            => jobs[j].state \in {"waiting", "delayed"}

ClearingLeavesActive ==
    (\E j \in JobIds : jobs[j].state # jobs'[j].state
                        /\ jobs'[j].state \in {"drained", "cleaned"})
        => /\ file' = file
           /\ \A k \in ActiveJobs : jobs'[k] = jobs[k]

ActiveRunsOn ==
    \A k \in ActiveJobs :
        \/ jobs'[k] = jobs[k]
        \/ /\ jobs'[k].state = "completed"
           /\ jobs'[k].writes = jobs[k].writes + 1
           /\ file' = TableWritten(k)
        \/ /\ jobs'[k].state \in {"delayed", "failed"}
           /\ jobs'[k].attemptsMade = jobs[k].attemptsMade + 1

DrainRemovesOnlyWaiting ==
    /\ [][Len(jobs') >= Len(jobs) /\ RemovedWereWaiting /\ ClearingLeavesActive
            /\ ActiveRunsOn]_vars
    /\ \A k \in 1..MaxJobs :
            (k \in ActiveJobs) ~> (k \in JobIds /\ jobs[k].state \in {"completed", "delayed", "failed"})

\* one job was drained while another was in its write-back; that other job
\* has completed and its cell is in the file
ActiveAtDrainCompletedWitness ==
    \E j \in DrainedJobs : \E k \in jobs[j].activeAtDrain :
        /\ jobs[k].state = "completed"
        /\ jobs[k].writes = 1
        /\ LET rows == getRows(file)
           IN Get(rows[FindRowIndex(rows, jobs[k].rowNumber)], jobs[k].nextColumn)
                = jobs[k].logEntry

\* C34: a job is taken from its worker only when the worker has let the
\* whole lock duration (300000 ms) pass without extending the lock; the
\* first three times the job goes back to Waiting for another worker, and
\* the stall after the third reclaim makes it Failed-Terminal.
StallStep(j) == jobs'[j].stalls # jobs[j].stalls

Reclaims(job) == IF job.stalls > MaxStalledCount THEN MaxStalledCount ELSE job.stalls

StallStepAfterLockDuration ==
    \A j \in JobIds :
        StallStep(j) =>
            /\ jobs[j].state = "active"
            /\ jobs[j].lock = 0
            /\ jobs'[j].stalls = jobs[j].stalls + 1
            /\ jobs'[j].attemptsMade = jobs[j].attemptsMade
            /\ jobs'[j].state = IF jobs[j].stalls < MaxStalledCount
                                THEN "waiting" ELSE "failed"

ReclaimedAtMostThreeTimes ==
    /\ [][StallStepAfterLockDuration]_vars
    /\ [](\A j \in JobIds :
            /\ jobs[j].stalls <= MaxStalledCount + 1
            /\ jobs[j].starts <= Attempts + Reclaims(jobs[j])
            /\ jobs[j].stalls = MaxStalledCount + 1 => jobs[j].state = "failed"
            /\ jobs[j].state = "active" => jobs[j].lock \in {0, LockDuration \div 2, LockDuration})

\* a job reclaimed three times and failed by its fourth stall, no attempt of
\* which was counted as failed
FourthStallFailsWitness ==
    \E j \in JobIds :
        /\ jobs[j].state = "failed"
        /\ jobs[j].stalls = MaxStalledCount + 1
        /\ jobs[j].starts = MaxStalledCount + 1
        /\ jobs[j].attemptsMade = 0
        /\ jobs[j].lock = 0

\* C35: for every job, over all of its attempts, sendEmail is called at most
\* once, also when an attempt failed after the email had gone out.
SentAtMostOncePerJob ==
    \A j \in JobIds : jobs[j].sendCalls <= 1

\* C36: whenever a job calls sendEmail, the contact's row in the store has
\* neither PAUSE nor $IN_TALKS set at that moment.
StoreRow(j) ==
    LET rows == getRows(file)
    IN rows[FindRowIndex(rows, jobs[j].rowNumber)]

NoSendToFlaggedContact ==
    [][\A j \in JobIds :
            (j \in DOMAIN jobs' /\ jobs'[j].sendCalls > jobs[j].sendCalls)
                => ~shouldSkipRow(StoreRow(j))]_vars

\* C37: every job that is enqueued reaches Completed or Failed-Terminal
\* unless it is drained while Waiting: no job stays Waiting or Active
\* forever.
Enqueued(j) == j \in JobIds

Settled(j) ==
    /\ j \in JobIds
    /\ jobs[j].state \in {"completed", "failed", "cleaned", "drained"}

EveryJobSettles ==
    /\ \A j \in 1..MaxJobs : Enqueued(j) ~> Settled(j)
    /\ [](\A j \in JobIds : jobs[j].state = "cleaned"
                => jobs[j].writes > 0 \/ jobs[j].nextColumn = JsNull
                   \/ jobs[j].attemptsMade = Attempts
                   \/ jobs[j].stalls > MaxStalledCount)

\* a job that failed twice, was retried and completed with its write-back
RetriedJobCompletedWitness ==
    \E j \in JobIds :
        /\ jobs[j].state = "completed"
        /\ jobs[j].attemptsMade = Attempts - 1
        /\ jobs[j].stalls > 0
        /\ jobs[j].writes = 1

\* C38: in the statistics runCampaign returns, enqueued + skipped + errors
\* is the number of rows iterated and at most totalRows, and the rows counted
\* as skipped are the ineligible ones among the rows iterated (a row whose
\* enqueue call failed is not among them).
RECURSIVE CountIneligible(_)
CountIneligible(rows) ==
    IF rows = <<>> THEN 0
    ELSE (IF shouldSkipRow(Head(rows)) THEN 1 ELSE 0) + CountIneligible(Tail(rows))

IteratedRows == SubSeq(getRows(file), 1, run.stats.iterated)

StatsAddUp ==
    run.called =>
        /\ run.stats.processedRows + run.stats.skippedRows + run.stats.errors
                = run.stats.iterated
        /\ run.stats.iterated <= run.stats.totalRows
        /\ run.stats.totalRows = Len(getRows(file))
        /\ run.stats.processedRows = Len(jobs)

SkippedCountsOnlyIneligible ==
    /\ StatsAddUp
    /\ run.called => run.stats.skippedRows = CountIneligible(IteratedRows)

\* C39: getTemplateNameFromColumn returns email_<n> for every column name
\* that parses to the numeric suffix n, and email_1 for every name that does
\* not parse to a numeric suffix.
TemplateCalled == colNext # NotCalled

\* the name is $EMAIL_ followed by digits only
HasNumericSuffix(name) ==
    /\ Len(name) >= 2
    /\ name[1] = EmailPrefix
    /\ \A i \in 2..Len(name) : name[i] \in DigitChars

TemplateNumber(n) == <<"email_">> \o NumberToString(n)

TemplateIsSuffix ==
    TemplateCalled =>
        IF HasNumericSuffix(colRow)
        THEN colNext = TemplateNumber(parseInt(Tail(colRow)))
        ELSE colNext = TemplateNumber(1)

\* C39 as it holds: email_<n> for a suffix n of at least 1, email_1 for the
\* suffix 0 and for every name without a numeric suffix.
TemplateIsPositiveSuffix ==
    TemplateCalled =>
        IF HasNumericSuffix(colRow) /\ parseInt(Tail(colRow)) >= 1
        THEN colNext = TemplateNumber(parseInt(Tail(colRow)))
        ELSE colNext = TemplateNumber(1)

\* $EMAIL_02 gave email_2
LeadingZeroTemplateWitness ==
    /\ colRow = <<EmailPrefix, "0", "2">>
    /\ colNext = <<"email_", "2">>

====
